---- MODULE Spec2Model ----
(***************************************************************************)
(* Aurix backend: transaction ingestion, categorization, KPI computation,  *)
(* forecasting and AI-quota accounting, as a state machine over the        *)
(* relational store.                                                       *)
(*                                                                         *)
(* Conventions.  A Python str is a sequence of one-character strings, so   *)
(* that lower(), strip(), title() and the `in` substring test are computed *)
(* as Python computes them.  A date is an integer day number.  An amount   *)
(* is an integer number of currency units: for these float(Decimal),       *)
(* float addition and Decimal(str(float)) are exact.                       *)
(***************************************************************************)
EXTENDS Integers, Sequences, FiniteSets, TLC

----------------------------------------------------------------------------
(* Python str operations used by etl/normalize.py                          *)

\* Python None where a str is expected (distinct from every str).
None == <<"<None>">>

UpperLetters ==
  <<"A","B","C","D","E","F","G","H","I","J","K","L","M","N","O","P","Q","R","S","T","U","V","W","X","Y","Z">>

LowerLetters ==
  <<"a","b","c","d","e","f","g","h","i","j","k","l","m","n","o","p","q","r","s","t","u","v","w","x","y","z">>

IsUpper(c) == \E i \in 1..26 : UpperLetters[i] = c

IsLower(c) == \E i \in 1..26 : LowerLetters[i] = c

IsCased(c) == IsUpper(c) \/ IsLower(c)

LowerChar(c) ==
  IF IsUpper(c) THEN LowerLetters[CHOOSE i \in 1..26 : UpperLetters[i] = c] ELSE c

UpperChar(c) ==
  IF IsLower(c) THEN UpperLetters[CHOOSE i \in 1..26 : LowerLetters[i] = c] ELSE c

\* str.lower()
lower(s) == [i \in 1..Len(s) |-> LowerChar(s[i])]

\* str.strip(): leading and trailing whitespace removed
strip(s) ==
  LET nonblank == {i \in 1..Len(s) : s[i] # " "}
      Min(S) == CHOOSE x \in S : \A y \in S : x <= y
      Max(S) == CHOOSE x \in S : \A y \in S : x >= y
  IN  IF nonblank = {} THEN <<>> ELSE SubSeq(s, Min(nonblank), Max(nonblank))

\* str.title(): a cased character is upper-cased unless it follows a cased one
title(s) ==
  [i \in 1..Len(s) |->
     IF i > 1 /\ IsCased(s[i-1]) THEN LowerChar(s[i]) ELSE UpperChar(s[i])]

\* sub in s
contains(sub, s) ==
  \E i \in 1..(Len(s) - Len(sub) + 1) : SubSeq(s, i, i + Len(sub) - 1) = sub

\* any(word in s for word in words)
any_in(words, s) == \E w \in words : contains(w, s)

----------------------------------------------------------------------------
(* etl/normalize.py: the category taxonomy                                 *)

Revenue == <<"R","e","v","e","n","u","e">>

Expense == <<"E","x","p","e","n","s","e">>

SaaS == <<"S","a","a","S">>

Infrastructure == <<"I","n","f","r","a","s","t","r","u","c","t","u","r","e">>

Marketing == <<"M","a","r","k","e","t","i","n","g">>

Payroll == <<"P","a","y","r","o","l","l">>

Contractor == <<"C","o","n","t","r","a","c","t","o","r">>

Office == <<"O","f","f","i","c","e">>

Travel == <<"T","r","a","v","e","l">>

MealsAndEntertainment == <<"M","e","a","l","s"," ","&"," ","E","n","t","e","r","t","a","i","n","m","e","n","t">>

Uncategorized == <<"U","n","c","a","t","e","g","o","r","i","z","e","d">>

\* the dict, in insertion order: <<key, value>>
CATEGORY_MAPPING ==
  << <<<<"r","e","v","e","n","u","e">>, <<"R","e","v","e","n","u","e">>>>,
     <<<<"s","a","l","e","s">>, <<"R","e","v","e","n","u","e">>>>,
     <<<<"i","n","c","o","m","e">>, <<"R","e","v","e","n","u","e">>>>,
     <<<<"p","a","y","m","e","n","t">>, <<"R","e","v","e","n","u","e">>>>,
     <<<<"s","u","b","s","c","r","i","p","t","i","o","n">>, <<"R","e","v","e","n","u","e">>>>,
     <<<<"e","x","p","e","n","s","e">>, <<"E","x","p","e","n","s","e">>>>,
     <<<<"c","o","s","t">>, <<"E","x","p","e","n","s","e">>>>,
     <<<<"p","u","r","c","h","a","s","e">>, <<"E","x","p","e","n","s","e">>>>,
     <<<<"p","a","y","m","e","n","t","_","s","e","n","t">>, <<"E","x","p","e","n","s","e">>>>,
     <<<<"s","a","a","s">>, <<"S","a","a","S">>>>,
     <<<<"s","o","f","t","w","a","r","e">>, <<"S","a","a","S">>>>,
     <<<<"s","u","b","s","c","r","i","p","t","i","o","n","_","e","x","p","e","n","s","e">>, <<"S","a","a","S">>>>,
     <<<<"h","o","s","t","i","n","g">>, <<"I","n","f","r","a","s","t","r","u","c","t","u","r","e">>>>,
     <<<<"s","e","r","v","e","r">>, <<"I","n","f","r","a","s","t","r","u","c","t","u","r","e">>>>,
     <<<<"c","l","o","u","d">>, <<"I","n","f","r","a","s","t","r","u","c","t","u","r","e">>>>,
     <<<<"m","a","r","k","e","t","i","n","g">>, <<"M","a","r","k","e","t","i","n","g">>>>,
     <<<<"a","d","v","e","r","t","i","s","i","n","g">>, <<"M","a","r","k","e","t","i","n","g">>>>,
     <<<<"a","d","s">>, <<"M","a","r","k","e","t","i","n","g">>>>,
     <<<<"p","a","y","r","o","l","l">>, <<"P","a","y","r","o","l","l">>>>,
     <<<<"s","a","l","a","r","y">>, <<"P","a","y","r","o","l","l">>>>,
     <<<<"w","a","g","e","s">>, <<"P","a","y","r","o","l","l">>>>,
     <<<<"c","o","n","t","r","a","c","t","o","r">>, <<"C","o","n","t","r","a","c","t","o","r">>>>,
     <<<<"f","r","e","e","l","a","n","c","e">>, <<"C","o","n","t","r","a","c","t","o","r">>>>,
     <<<<"o","f","f","i","c","e">>, <<"O","f","f","i","c","e">>>>,
     <<<<"s","u","p","p","l","i","e","s">>, <<"O","f","f","i","c","e">>>>,
     <<<<"t","r","a","v","e","l">>, <<"T","r","a","v","e","l">>>>,
     <<<<"m","e","a","l","s">>, <<"M","e","a","l","s"," ","&"," ","E","n","t","e","r","t","a","i","n","m","e","n","t">>>>,
     <<<<"e","n","t","e","r","t","a","i","n","m","e","n","t">>, <<"M","e","a","l","s"," ","&"," ","E","n","t","e","r","t","a","i","n","m","e","n","t">>>>,
     <<<<"r","e","f","u","n","d">>, <<"R","e","f","u","n","d">>>>,
     <<<<"f","e","e">>, <<"F","e","e">>>>,
     <<<<"i","n","t","e","r","e","s","t">>, <<"I","n","t","e","r","e","s","t">>>>,
     <<<<"t","a","x">>, <<"T","a","x">>>>,
     <<<<"t","r","a","n","s","f","e","r">>, <<"T","r","a","n","s","f","e","r">>>> >>

MatchExact(s) == {i \in 1..Len(CATEGORY_MAPPING) : CATEGORY_MAPPING[i][1] = s}

MatchPartial(s) == {i \in 1..Len(CATEGORY_MAPPING) : contains(CATEGORY_MAPPING[i][1], s)}

First(S) == CHOOSE i \in S : \A j \in S : i <= j

normalize_category(raw_category) ==
  IF raw_category = None \/ raw_category = <<>> THEN Uncategorized
  ELSE LET category_lower == strip(lower(raw_category)) IN
       IF MatchExact(category_lower) # {}
         THEN CATEGORY_MAPPING[First(MatchExact(category_lower))][2]
       ELSE IF MatchPartial(category_lower) # {}
         THEN CATEGORY_MAPPING[First(MatchPartial(category_lower))][2]
       ELSE title(raw_category)

IncomeWords ==
  {<<"p","a","y","m","e","n","t"," ","r","e","c","e","i","v","e","d">>, <<"i","n","v","o","i","c","e">>, <<"s","a","l","e">>, <<"d","e","p","o","s","i","t">>}

SaaSWords ==
  {<<"a","w","s">>, <<"g","i","t","h","u","b">>, <<"s","t","r","i","p","e">>, <<"v","e","r","c","e","l">>, <<"h","e","r","o","k","u">>, <<"d","i","g","i","t","a","l","o","c","e","a","n">>, <<"s","o","f","t","w","a","r","e">>}

MarketingWords ==
  {<<"g","o","o","g","l","e"," ","a","d","s">>, <<"f","a","c","e","b","o","o","k"," ","a","d","s">>, <<"l","i","n","k","e","d","i","n">>, <<"m","a","r","k","e","t","i","n","g">>, <<"a","d","v","e","r","t","i","s","i","n","g">>}

InfrastructureWords ==
  {<<"h","o","s","t","i","n","g">>, <<"s","e","r","v","e","r">>, <<"c","l","o","u","d">>, <<"d","o","m","a","i","n">>}

OfficeWords ==
  {<<"o","f","f","i","c","e">>, <<"s","u","p","p","l","i","e","s">>, <<"e","q","u","i","p","m","e","n","t">>}

TravelWords ==
  {<<"a","i","r","l","i","n","e">>, <<"h","o","t","e","l">>, <<"u","b","e","r">>, <<"l","y","f","t">>, <<"t","a","x","i">>, <<"f","l","i","g","h","t">>}

categorize_transaction(description, amount, existing_category) ==
  IF existing_category # None /\ existing_category # <<>>
    THEN normalize_category(existing_category)
  ELSE LET desc_lower == lower(description) IN
       IF amount > 0 /\ any_in(IncomeWords, desc_lower) THEN Revenue
       ELSE IF amount < 0 THEN
              IF any_in(SaaSWords, desc_lower) THEN SaaS
              ELSE IF any_in(MarketingWords, desc_lower) THEN Marketing
              ELSE IF any_in(InfrastructureWords, desc_lower) THEN Infrastructure
              ELSE IF any_in(OfficeWords, desc_lower) THEN Office
              ELSE IF any_in(TravelWords, desc_lower) THEN Travel
              ELSE Expense
       ELSE Uncategorized

----------------------------------------------------------------------------
(* State                                                                   *)

VARIABLES
  today,          \* date.today()
  sheet,          \* the rows of each Google spreadsheet (the external source)
  transactions,   \* table transactions
  datasources,    \* table datasources: the sync columns of each row
  fetched,        \* history: what each datasource's last successful run fetched
  metrics_daily,  \* table metrics_daily
  forecasts,      \* table forecasts, in order of created_at
  tenants,        \* table tenants: the AI usage columns of each row
  requests,       \* the API requests in flight
  ret,            \* what the last finished task or request returned
  cat,            \* a call of categorize_transaction: arguments and result
  call            \* a call of another function: arguments and result

vars ==
  <<today, sheet, transactions, datasources, fetched, metrics_daily,
    forecasts, tenants, requests, ret, cat, call>>

----------------------------------------------------------------------------
(* Categorization as a function of its arguments                            *)

CatDescriptions ==
  {<<>>,
   <<"I","n","v","o","i","c","e"," ","4","2">>,
   <<"A","W","S"," ","b","i","l","l">>,
   <<"G","o","o","g","l","e"," ","A","d","s">>,
   <<"D","o","m","a","i","n"," ","r","e","n","e","w","a","l">>,
   <<"O","f","f","i","c","e"," ","c","h","a","i","r","s">>,
   <<"U","b","e","r"," ","r","i","d","e">>,
   <<"L","u","n","c","h">>}

CatCategories ==
  {None,
   <<>>,
   <<"s","a","l","e","s">>,
   <<" ","S","a","l","e","s"," ">>,
   <<"M","i","s","c">>,
   <<"R","&","D">>,
   <<" "," ">>,
   <<"D","o","w","n","l","o","a","d","s">>,
   <<"T","a","x","i">>,
   <<"o","f","f","i","c","e"," ","s","u","p","p","l","i","e","s">>}

CatAmounts == {-1, 0, 1}

NoCall == [description |-> <<>>, amount |-> 0, existing_category |-> None,
           category |-> None, done |-> FALSE]

EmptyDict == [k \in {} |-> 0]

\* d[k] = v
Put(d, k, v) == [x \in DOMAIN d \cup {k} |-> IF x = k THEN v ELSE d[x]]

\* no call of another function
Uncalled == [op |-> "None", done |-> FALSE]

----------------------------------------------------------------------------
(* The configuration: tenants, datasources, dates                           *)

Tenants == {"T1", "T2"}

DataSourceIds == {"DS1", "DS2", "DS3", "DS4"}

SheetSources == {"DS1", "DS2", "DS3"}

\* DataSource.tenant_id
DsTenant(ds) == IF ds \in {"DS1", "DS2"} THEN "T1" ELSE "T2"

\* DataSource.kind
DsKind(ds) == IF ds = "DS4" THEN "quickbooks" ELSE "google_sheets"

\* DataSource.config["spreadsheet_id"]: every sheet datasource is connected
\* to the same spreadsheet
DsSpreadsheet(ds) == "S1"

\* date(2020, 1, 1), the "far past date" of compute_runway, as a day number
FarPast == 31

\* date.today() when the system starts
Today0 == FarPast + 400

\* how many times the date may change
MaxDaysElapsed == 1

\* how many successful runs of the ingestion task there may be
MaxSyncs == 3

\* rows a user may have entered in the spreadsheet:
\* Date, Description, Amount, Category
Rows ==
  << [date |-> Today0 - 1, amount |-> 50, category |-> <<"s","a","l","e","s">>,
      description |-> <<"I","n","v","o","i","c","e"," ","4","2">>],
     [date |-> Today0 - 1, amount |-> -20, category |-> <<>>,
      description |-> <<"A","W","S"," ","b","i","l","l">>],
     [date |-> FarPast - 1, amount |-> 100, category |-> <<>>,
      description |-> <<"D","e","p","o","s","i","t">>],
     [date |-> Today0 + 1, amount |-> -30, category |-> <<>>,
      description |-> <<"U","b","e","r"," ","r","i","d","e">>],
     [date |-> Today0 - 40, amount |-> -10, category |-> <<"M","i","s","c">>,
      description |-> <<"L","u","n","c","h">>],
     [date |-> Today0, amount |-> -5, category |-> <<"s","a","l","e","s">>,
      description |-> <<"R","e","f","u","n","d">>] >>

\* the spreadsheets considered
Sheets ==
  { <<>>,
    <<Rows[1], Rows[2]>>,
    <<Rows[3], Rows[2]>>,
    <<Rows[4], Rows[1]>>,
    <<Rows[1], Rows[1]>>,
    <<Rows[2], Rows[4]>>,
    <<Rows[1], Rows[6]>>,
    <<Rows[5], Rows[2], Rows[6]>> }

\* a spreadsheet with one sale on each of the last 30 days
LongSheet ==
  [i \in 1..30 |->
     [date |-> Today0 - 31 + i, amount |-> 10, category |-> <<"s","a","l","e","s">>,
      description |-> <<"I","n","v","o","i","c","e"," ","4","2">>]]

----------------------------------------------------------------------------
(* integrations/google_sheets.py and etl/normalize.py: from rows to        *)
(* transactions                                                            *)

\* One dict per parsed row; the row number starts at 2 (the header is row 1).
extract_transactions(spreadsheet_id, rows) ==
  [i \in 1..Len(rows) |->
     [date |-> rows[i].date,
      amount |-> rows[i].amount,
      description |-> rows[i].description,
      category |-> rows[i].category,
      external_id |-> <<"sheets", spreadsheet_id, i + 1>>]]

\* key_fields = ["date", "amount", "description"];
\* tuple(txn.get(field) for field in key_fields)
DupKey(txn) ==
  <<txn.date, txn.amount,
    IF "description" \in DOMAIN txn THEN txn.description ELSE None>>

\* the loop over transactions from number i on, with the set seen and the
\* list unique
RECURSIVE dedup_loop(_, _, _, _)
dedup_loop(txns, i, seen, unique) ==
  IF i > Len(txns) THEN unique
  ELSE IF DupKey(txns[i]) \notin seen
    THEN dedup_loop(txns, i + 1, seen \cup {DupKey(txns[i])}, Append(unique, txns[i]))
  ELSE dedup_loop(txns, i + 1, seen, unique)

\* the loop with a set seen that nothing is added to
detect_duplicates_unseen(txns) == txns

detect_duplicates(txns) == dedup_loop(txns, 1, {}, <<>>)

\* A call of detect_duplicates with the default key_fields.
DetectDuplicates ==
  /\ call.op = "detect_duplicates"
  /\ ~call.done
  /\ call' = [call EXCEPT !.result = detect_duplicates(call.transactions),
                          !.done = TRUE]
  /\ UNCHANGED <<today, sheet, transactions, datasources, fetched, metrics_daily,
                 forecasts, tenants, requests, ret, cat>>

\* validation that passes every transaction
validate_transaction_unchecked(txn, now) == TRUE

\* The dicts of extract_transactions hold a date, a Decimal amount and an
\* external_id, so only the future-date test can fail.
validate_transaction(txn, now) == ~(txn.date > now)

ValueError == [error |-> "ValueError"]

IsError(x) == "error" \in DOMAIN x

\* the enriched row with the datasource id in the place of the tenant id
enrich_transaction_swapped(txn, tenant_id, data_source_id, now) ==
  IF ~validate_transaction(txn, now) THEN ValueError
  ELSE [tenant_id |-> data_source_id,
        data_source_id |-> data_source_id,
        external_id |-> txn.external_id,
        date |-> txn.date,
        amount |-> txn.amount,
        description |-> txn.description,
        category |-> categorize_transaction(txn.description, txn.amount, txn.category)]

enrich_transaction(txn, tenant_id, data_source_id, now) ==
  IF ~validate_transaction(txn, now) THEN ValueError
  ELSE [tenant_id |-> tenant_id,
        data_source_id |-> data_source_id,
        external_id |-> txn.external_id,
        date |-> txn.date,
        amount |-> txn.amount,
        description |-> txn.description,
        category |-> categorize_transaction(txn.description, txn.amount, txn.category)]

----------------------------------------------------------------------------
(* workers/tasks/ingest.py                                                 *)

\* a select that finds no row
existing_transactions_unchecked(db, tenant_id, external_id) == {}

\* select(Transaction).where(tenant_id == ..., external_id == ...)
existing_transactions(db, tenant_id, external_id) ==
  {t \in db : t.tenant_id = tenant_id /\ t.external_id = external_id}

\* The loop over unique_transactions.  The session does not autoflush, so
\* the select sees the committed table only; session.add queues the row.
\* A row that fails enrichment, or a select that finds several rows
\* (scalar_one_or_none raises), is logged and skipped.
RECURSIVE save_loop(_, _, _, _, _, _)
save_loop(txns, i, tenant_id, data_source_id, db, now) ==
  IF i > Len(txns) THEN <<>>
  ELSE LET enriched == enrich_transaction(txns[i], tenant_id, data_source_id, now)
           rest == save_loop(txns, i + 1, tenant_id, data_source_id, db, now)
       IN  IF IsError(enriched) THEN rest
           ELSE IF existing_transactions(db, tenant_id, enriched.external_id) = {}
             THEN <<enriched>> \o rest
           ELSE rest

\* UniqueConstraint("tenant_id", "data_source_id", "external_id")
TxnKey(t) == <<t.tenant_id, t.data_source_id, t.external_id>>

\* session.commit() of the queued rows: the INSERTs violate no constraint
commit_ok(db, pending) ==
  /\ \A i \in 1..Len(pending) : \A t \in db : TxnKey(t) # TxnKey(pending[i])
  /\ \A i, j \in 1..Len(pending) : i # j => TxnKey(pending[i]) # TxnKey(pending[j])

Range(s) == {s[i] : i \in 1..Len(s)}

\* a new DataSource row; last_sync_at, which nothing reads, is left out
NoSync ==
  [status |-> "active", last_sync_status |-> "None", last_sync_error |-> "None",
   sync_count |-> 0]

NoFetch == [rows |-> <<>>, day |-> 0, done |-> FALSE]

\* the successful runs of the task so far
RECURSIVE TotalSyncs(_, _)
TotalSyncs(sources, ids) ==
  IF ids = {} THEN 0
  ELSE LET ds == CHOOSE x \in ids : TRUE
       IN  sources[ds].sync_count + TotalSyncs(sources, ids \ {ds})

\* what ends the try block early: the message of the exception, or "None"
ingest_failure(ds, fetch, db, pending) ==
  IF DsKind(ds) # "google_sheets" THEN "Unsupported datasource kind"
  ELSE IF fetch = "error" THEN "Cannot read spreadsheet range"
  ELSE IF ~commit_ok(db, pending) THEN "IntegrityError"
  ELSE "None"

\* the task when an exception leaves it and nothing records it
ingest_failed_unrecorded(st, ds, failure) ==
  [transactions |-> st.transactions,
   datasources |-> st.datasources,
   fetched |-> st.fetched,
   ret |-> [op |-> "ingest_datasource",
            tenant_id |-> DsTenant(ds),
            datasource_id |-> ds,
            status |-> "raised",
            error |-> failure]]

\* the task when the try block is left by an exception: the except block
\* records it and raises it again
ingest_failed(st, ds, failure) ==
  [transactions |-> st.transactions,
   datasources |-> [st.datasources EXCEPT ![ds] =
                      [@ EXCEPT !.last_sync_status = "error",
                                !.last_sync_error = failure]],
   fetched |-> st.fetched,
   ret |-> [op |-> "ingest_datasource",
            tenant_id |-> DsTenant(ds),
            datasource_id |-> ds,
            status |-> "raised",
            error |-> failure]]

\* the task from the fetch on, on the rows fetched and those queued
ingest_saved(st, ds, fetch, now, raw_transactions, pending) ==
  IF fetch = "InvalidToken"
    THEN [transactions |-> st.transactions,
          datasources |-> st.datasources,
          fetched |-> st.fetched,
          ret |-> [op |-> "ingest_datasource",
                   tenant_id |-> DsTenant(ds),
                   datasource_id |-> ds,
                   status |-> "raised",
                   error |-> "InvalidToken"]]
  ELSE IF ingest_failure(ds, fetch, st.transactions, pending) # "None"
    THEN ingest_failed(st, ds, ingest_failure(ds, fetch, st.transactions, pending))
  ELSE [transactions |-> st.transactions \cup Range(pending),
        datasources |-> [st.datasources EXCEPT ![ds] =
                           [@ EXCEPT !.last_sync_status = "success",
                                     !.sync_count = @ + 1]],
        fetched |-> [st.fetched EXCEPT ![ds] =
                       [rows |-> raw_transactions, day |-> now, done |-> TRUE]],
        ret |-> [op |-> "ingest_datasource",
                 tenant_id |-> DsTenant(ds),
                 datasource_id |-> ds,
                 status |-> "success",
                 transactions_fetched |-> Len(raw_transactions),
                 transactions_saved |-> Len(pending)]]

\* The task, for a datasource that exists and has an OAuth token, on the
\* tables st and the spreadsheet rows.  fetch is what the outside answers:
\* "ok" or "error" of the Google Sheets API, or "InvalidToken" of Fernet
\* when the stored access token does not decrypt under the configured key;
\* that happens before the try.
ingest_datasource(st, ds, fetch, now, rows) ==
  ingest_saved(st, ds, fetch, now,
               extract_transactions(DsSpreadsheet(ds), rows),
               save_loop(detect_duplicates(extract_transactions(DsSpreadsheet(ds), rows)),
                         1, DsTenant(ds), ds, st.transactions, now))

\* the tables the task reads and writes
Tables ==
  [transactions |-> transactions, datasources |-> datasources, fetched |-> fetched]

\* A run of the task ingest_datasource.
IngestDatasource(ds, fetch) ==
  /\ TotalSyncs(datasources, DataSourceIds) < MaxSyncs
  /\ \E out \in {ingest_datasource(Tables, ds, fetch, today, sheet)} :
        /\ transactions' = out.transactions
        /\ datasources' = out.datasources
        /\ fetched' = out.fetched
        /\ ret' = out.ret
  /\ UNCHANGED <<today, sheet, metrics_daily, forecasts, tenants, requests, cat, call>>

\* select(DataSource).where(tenant_id == ...).where(status == "active")
active_datasources(sources, tenant_id) ==
  {ds \in DataSourceIds : DsTenant(ds) = tenant_id /\ sources[ds].status = "active"}

\* the orders the select, which has no order_by, may return a set of rows in
Orders(ids) ==
  {o \in [1..Cardinality(ids) -> ids] : \A i, j \in 1..Cardinality(ids) :
                                           i # j => o[i] # o[j]}

\* results[str(ds.id)] of a call of ingest_datasource
result_of(r) ==
  IF r.status = "raised" THEN [status |-> "error", error |-> r.error]
  ELSE [datasource_id |-> r.datasource_id,
        status |-> r.status,
        transactions_fetched |-> r.transactions_fetched,
        transactions_saved |-> r.transactions_saved]

\* The loop of ingest_all_tenant_sources from datasource number i on.  acc
\* holds the tables, results, the ids ingest_datasource was called with and
\* the exception that left the loop; isolate: the try is inside the loop.
RECURSIVE IngestLoop(_, _, _, _, _, _, _)
RECURSIVE IngestStep(_, _, _, _, _, _, _, _)
IngestLoop(acc, order, i, fetches, now, rows, isolate) ==
  IF i > Len(order) THEN acc
  ELSE IngestStep(acc, order, i, fetches, now, rows, isolate,
                  ingest_datasource(acc.st, order[i], fetches[order[i]], now, rows))

\* one turn of the loop, on what the call of ingest_datasource did
IngestStep(acc, order, i, fetches, now, rows, isolate, out) ==
  IF out.ret.status = "raised" /\ ~isolate
    THEN [acc EXCEPT !.st = [transactions |-> out.transactions,
                             datasources |-> out.datasources,
                             fetched |-> out.fetched],
                     !.called = Append(@, order[i]),
                     !.raised = out.ret.error]
  ELSE IngestLoop([acc EXCEPT !.st = [transactions |-> out.transactions,
                                      datasources |-> out.datasources,
                                      fetched |-> out.fetched],
                              !.called = Append(@, order[i]),
                              !.results = Put(@, order[i], result_of(out.ret))],
                  order, i + 1, fetches, now, rows, isolate)

\* the try around the whole loop: the first failure ends it
ingest_all_tenant_sources_one_try(st, order, fetches, now, rows) ==
  IngestLoop([st |-> st, results |-> EmptyDict, called |-> <<>>, raised |-> "None"],
             order, 1, fetches, now, rows, FALSE)

ingest_all_tenant_sources(st, order, fetches, now, rows) ==
  IngestLoop([st |-> st, results |-> EmptyDict, called |-> <<>>, raised |-> "None"],
             order, 1, fetches, now, rows, TRUE)

\* A run of the task ingest_all_tenant_sources; fetches is what the outside
\* answers to the run of each datasource.
IngestAllTenantSources(tenant_id, fetches) ==
  /\ TotalSyncs(datasources, DataSourceIds) < MaxSyncs
  /\ \E order \in Orders(active_datasources(datasources, tenant_id)) :
      \E out \in {ingest_all_tenant_sources(Tables, order, fetches, today, sheet)} :
        /\ transactions' = out.st.transactions
        /\ datasources' = out.st.datasources
        /\ fetched' = out.st.fetched
        /\ ret' = IF out.raised # "None"
                    THEN [op |-> "ingest_all_tenant_sources",
                          tenant_id |-> tenant_id,
                          status |-> "raised",
                          called |-> out.called]
                  ELSE [op |-> "ingest_all_tenant_sources",
                        tenant_id |-> tenant_id,
                        status |-> "returned",
                        called |-> out.called,
                        datasources_processed |-> Cardinality(DOMAIN out.results),
                        results |-> out.results]
  /\ UNCHANGED <<today, sheet, metrics_daily, forecasts, tenants, requests, cat, call>>

\* Midnight passes.
AdvanceDay ==
  /\ today < Today0 + MaxDaysElapsed
  /\ today' = today + 1
  /\ UNCHANGED <<sheet, transactions, datasources, fetched, metrics_daily,
                 forecasts, tenants, requests, ret, cat, call>>

----------------------------------------------------------------------------
(* decimal.Decimal in the default context: a value is sign, decimal digits  *)
(* (most significant first) and exponent; a quotient is rounded to prec      *)
(* significant digits, ROUND_HALF_EVEN.  The long division works on          *)
(* numbers of Limbs limbs of LimbDigits digits each, least significant       *)
(* first.  Amounts are whole currency units, which float() and               *)
(* Decimal(str(...)) convert exactly.                                        *)

\* getcontext().prec
prec == 28

LimbDigits == 7

Base == 10000000

\* the decimal digits of n >= 0
RECURSIVE DigitsOf(_)
DigitsOf(n) == IF n < 10 THEN <<n>> ELSE Append(DigitsOf(n \div 10), n % 10)

\* Decimal(n) of an integer n
Decimal(n) ==
  [neg |-> n < 0, digits |-> DigitsOf(IF n < 0 THEN -n ELSE n), exp |-> 0]

is_zero(x) == \A i \in 1..Len(x.digits) : x.digits[i] = 0

\* digits as limbs
ToBig(ds) ==
  LET n == Len(ds)
      digit(j) == IF j <= n THEN ds[n - j + 1] ELSE 0
  IN  [i \in 1..((n + LimbDigits - 1) \div LimbDigits) |->
         LET b == LimbDigits * (i - 1)
         IN  digit(b + 1) + 10 * digit(b + 2) + 100 * digit(b + 3)
               + 1000 * digit(b + 4) + 10000 * digit(b + 5)
               + 100000 * digit(b + 6) + 1000000 * digit(b + 7)]

\* limb i of x; the limbs past its length are zero
Limb(x, i) == IF i <= Len(x) THEN x[i] ELSE 0

BigIsZero(x) == \A i \in 1..Len(x) : x[i] = 0

\* x * m + carry, for a small m
RECURSIVE BigMul(_, _, _)
BigMul(x, m, carry) ==
  IF x = <<>> THEN IF carry = 0 THEN <<>> ELSE <<carry>>
  ELSE LET v == Head(x) * m + carry
       IN  <<v % Base>> \o BigMul(Tail(x), m, v \div Base)

\* x >= y on the limbs 1..i
RECURSIVE BigGeqFrom(_, _, _)
BigGeqFrom(x, y, i) ==
  IF i = 0 THEN TRUE
  ELSE IF Limb(x, i) = Limb(y, i) THEN BigGeqFrom(x, y, i - 1)
  ELSE Limb(x, i) > Limb(y, i)

\* x >= y
BigGeq(x, y) == BigGeqFrom(x, y, IF Len(x) > Len(y) THEN Len(x) ELSE Len(y))

\* x - y - borrow, for x >= y + borrow
RECURSIVE BigSub(_, _, _)
BigSub(x, y, borrow) ==
  IF x = <<>> THEN <<>>
  ELSE LET v == Head(x) - Limb(y, 1) - borrow
           rest == IF y = <<>> THEN <<>> ELSE Tail(y)
       IN  IF v < 0 THEN <<v + Base>> \o BigSub(Tail(x), rest, 1)
           ELSE <<v>> \o BigSub(Tail(x), rest, 0)

\* q plus the largest k with k * y <= x, and the remainder
RECURSIVE QuoDigit(_, _, _)
QuoDigit(x, y, q) ==
  IF BigGeq(x, y) THEN QuoDigit(BigSub(x, y, 0), y, q + 1)
  ELSE [q |-> q, rem |-> x]

\* a digit e with e * y <= x, from the leading limbs, for x < 10 * y and
\* y with a nonzero last limb
QuoEstimate(x, y) ==
  (Limb(x, Len(y)) + Base * Limb(x, Len(y) + 1)) \div (y[Len(y)] + 1)

\* the largest q with q * y <= x, and the remainder, from the estimate e
QuoStep(x, y, e) == QuoDigit(BigSub(x, BigMul(y, e, 0), 0), y, e)

\* n and d scaled by powers of ten until d <= n < 10 * d; shift counts them
RECURSIVE Align(_, _, _)
Align(n, d, shift) ==
  IF BigGeq(n, BigMul(d, 10, 0)) THEN Align(n, BigMul(d, 10, 0), shift + 1)
  ELSE IF ~BigGeq(n, d) THEN Align(BigMul(n, 10, 0), d, shift - 1)
  ELSE [n |-> n, d |-> d, shift |-> shift]

\* k more digits of r / d, for r < 10 * d; rem is ten times the remainder
RECURSIVE DivLoop(_, _, _, _)
DivLoop(r, d, k, acc) ==
  IF k = 0 THEN [digits |-> acc, rem |-> r]
  ELSE IF BigIsZero(r) THEN [digits |-> acc \o [i \in 1..k |-> 0], rem |-> r]
  ELSE LET step == QuoStep(r, d, QuoEstimate(r, d))
       IN  DivLoop(BigMul(step.rem, 10, 0), d, k - 1, Append(acc, step.q))

\* digits + 1
RECURSIVE Incr(_)
Incr(ds) ==
  IF ds = <<>> THEN <<1>>
  ELSE IF ds[Len(ds)] = 9 THEN Append(Incr(SubSeq(ds, 1, Len(ds) - 1)), 0)
  ELSE [ds EXCEPT ![Len(ds)] = @ + 1]

\* the digits after a carry out of the rounding, and the exponent
Carried(rounded, shift) ==
  [digits |-> SubSeq(rounded, 1, prec),
   exp |-> shift - (prec - 1) + (IF Len(rounded) > prec THEN 1 ELSE 0)]

\* ROUND_HALF_EVEN of the prec digits q.digits; half is 5 * d
Rounded(q, half, shift) ==
  Carried(IF BigGeq(half, q.rem)
            THEN IF BigGeq(q.rem, half) /\ q.digits[prec] % 2 = 1
                   THEN Incr(q.digits) ELSE q.digits
          ELSE Incr(q.digits),
          shift)

\* the quotient of the aligned operands a
Quotient(a) == Rounded(DivLoop(a.n, a.d, prec, <<>>), BigMul(a.d, 5, 0), a.shift)

\* the sign and exponent of x / y on the quotient m of the coefficients
Signed(x, y, m) ==
  [neg |-> x.neg # y.neg, digits |-> m.digits, exp |-> x.exp - y.exp + m.exp]

\* Decimal.__truediv__, for y # 0
decimal_truediv(x, y) ==
  IF is_zero(x) THEN Decimal(0)
  ELSE Signed(x, y, Quotient(Align(ToBig(x.digits), ToBig(y.digits), 0)))

\* x * 10^n
scaleb(x, n) == [x EXCEPT !.exp = @ + n]

\* the value of a digit sequence
RECURSIVE ValueOf(_)
ValueOf(ds) ==
  IF ds = <<>> THEN 0
  ELSE 10 * ValueOf(SubSeq(ds, 1, Len(ds) - 1)) + ds[Len(ds)]

\* int(x): x truncated toward zero
int(x) ==
  LET kept == IF x.exp >= 0 THEN x.digits \o [i \in 1..x.exp |-> 0]
              ELSE SubSeq(x.digits, 1, Len(x.digits) + x.exp)
  IN  IF x.neg THEN -ValueOf(kept) ELSE ValueOf(kept)

----------------------------------------------------------------------------
(* etl/kpis.py: KPIEngine.  A dict[date, Decimal] is a function on its     *)
(* set of dates.                                                           *)

RECURSIVE SumAmounts(_)
SumAmounts(rows) ==
  IF rows = {} THEN 0
  ELSE LET t == CHOOSE x \in rows : TRUE IN t.amount + SumAmounts(rows \ {t})

RECURSIVE SumOver(_, _)
SumOver(f, keys) ==
  IF keys = {} THEN 0
  ELSE LET k == CHOOSE x \in keys : TRUE IN f[k] + SumOver(f, keys \ {k})

\* sum(d.values())
SumValues(d) == SumOver(d, DOMAIN d)

Abs(x) == IF x < 0 THEN -x ELSE x

\* d.get(k, Decimal(0))
Get(d, k) == IF k \in DOMAIN d THEN d[k] ELSE 0

\* the select without its tenant filter
get_transactions_df_all_tenants(db, tenant_id, start_date, end_date) ==
  {t \in db : /\ t.date >= start_date
              /\ t.date <= end_date}

get_transactions_df(db, tenant_id, start_date, end_date) ==
  {t \in db : /\ t.tenant_id = tenant_id
              /\ t.date >= start_date
              /\ t.date <= end_date}

compute_revenue(db, tenant_id, start_date, end_date) ==
  LET df == get_transactions_df(db, tenant_id, start_date, end_date)
      revenue_df == {t \in df : t.category = Revenue}
  IN  IF df = {} THEN EmptyDict
      ELSE [d \in {t.date : t \in revenue_df} |->
              SumAmounts({t \in revenue_df : t.date = d})]

expense_categories ==
  {Expense, SaaS, Infrastructure, Marketing, Payroll, Contractor, Office,
   Travel, MealsAndEntertainment}

compute_expenses(db, tenant_id, start_date, end_date) ==
  LET df == get_transactions_df(db, tenant_id, start_date, end_date)
      expense_df == {t \in df : t.category \in expense_categories \/ t.amount < 0}
  IN  IF df = {} THEN EmptyDict
      ELSE [d \in {t.date : t \in expense_df} |->
              Abs(SumAmounts({t \in expense_df : t.date = d}))]

\* net cash on the dates of revenue only
compute_net_cash_revenue_dates(db, tenant_id, start_date, end_date) ==
  LET revenue == compute_revenue(db, tenant_id, start_date, end_date)
      expenses == compute_expenses(db, tenant_id, start_date, end_date)
  IN  [dt \in DOMAIN revenue |-> Get(revenue, dt) - Get(expenses, dt)]

compute_net_cash(db, tenant_id, start_date, end_date) ==
  LET revenue == compute_revenue(db, tenant_id, start_date, end_date)
      expenses == compute_expenses(db, tenant_id, start_date, end_date)
      all_dates == DOMAIN revenue \cup DOMAIN expenses
  IN  [dt \in all_dates |-> Get(revenue, dt) - Get(expenses, dt)]

Zero == Decimal(0)

\* compute_burn_rate's default window
DefaultBurnDays == 30

\* the burn rate net of revenue
compute_burn_rate_net(db, tenant_id, now, days) ==
  LET end_date == now
      start_date == end_date - days
      expenses == compute_expenses(db, tenant_id, start_date, end_date)
      revenue == compute_revenue(db, tenant_id, start_date, end_date)
  IN  IF DOMAIN expenses = {} THEN Zero
      ELSE decimal_truediv(Decimal(SumValues(expenses) - SumValues(revenue)),
                           Decimal(days))

compute_burn_rate(db, tenant_id, now, days) ==
  LET end_date == now
      start_date == end_date - days
      expenses == compute_expenses(db, tenant_id, start_date, end_date)
      total_expenses == SumValues(expenses)
  IN  IF DOMAIN expenses = {} THEN Zero
      ELSE decimal_truediv(Decimal(total_expenses), Decimal(days))

\* "Effectively infinite"
RunwaySentinel == 999

\* has_cash: current_cash is not None
compute_runway(db, tenant_id, now, has_cash, cash) ==
  LET burn_rate == compute_burn_rate(db, tenant_id, now, DefaultBurnDays)
      df == get_transactions_df(db, tenant_id, FarPast, now)
      current_cash == IF has_cash THEN cash
                      ELSE IF df = {} THEN 0
                      ELSE SumAmounts(df)
  IN  IF is_zero(burn_rate) THEN RunwaySentinel
      ELSE IF current_cash <= 0 THEN 0
      ELSE int(decimal_truediv(Decimal(current_cash), burn_rate))

\* compute_growth_rate's default period
DefaultPeriodDays == 30

\* the split with mid_date in the current period
compute_growth_rate_mid_current(db, tenant_id, now, period_days) ==
  LET end_date == now
      start_date == end_date - period_days * 2
      revenue == compute_revenue(db, tenant_id, start_date, end_date)
      mid_date == end_date - period_days
      current_period == SumOver(revenue, {k \in DOMAIN revenue : k >= mid_date})
      previous_period == SumOver(revenue, {k \in DOMAIN revenue : k < mid_date})
  IN  IF DOMAIN revenue = {}
        THEN [growth_rate |-> Zero, current_period |-> 0, previous_period |-> 0]
      ELSE [growth_rate |-> IF previous_period = 0 THEN Zero
                            ELSE scaleb(decimal_truediv(
                                          Decimal(current_period - previous_period),
                                          Decimal(previous_period)), 2),
            current_period |-> current_period,
            previous_period |-> previous_period]

compute_growth_rate(db, tenant_id, now, period_days) ==
  LET end_date == now
      start_date == end_date - period_days * 2
      revenue == compute_revenue(db, tenant_id, start_date, end_date)
      mid_date == end_date - period_days
      current_period == SumOver(revenue, {k \in DOMAIN revenue : k > mid_date})
      previous_period == SumOver(revenue, {k \in DOMAIN revenue : k <= mid_date})
  IN  IF DOMAIN revenue = {}
        THEN [growth_rate |-> Zero, current_period |-> 0, previous_period |-> 0]
      ELSE [growth_rate |-> IF previous_period = 0 THEN Zero
                            ELSE scaleb(decimal_truediv(
                                          Decimal(current_period - previous_period),
                                          Decimal(previous_period)), 2),
            current_period |-> current_period,
            previous_period |-> previous_period]

\* UniqueConstraint("tenant_id", "date", "metric")
MetricKey(m) == <<m.tenant_id, m.date, m.metric>>

\* the MetricDaily rows save_metrics adds to the session
metric_rows(tenant_id, metric_name, values) ==
  {[tenant_id |-> tenant_id, date |-> dt, metric |-> metric_name, value |-> values[dt]] :
     dt \in DOMAIN values}

\* save_metrics: the table after the commit, or the table as it was when an
\* INSERT violates the constraint (IntegrityError)
save_metrics_ok(table, tenant_id, metric_name, values) ==
  \A m \in metric_rows(tenant_id, metric_name, values) :
     \A x \in table : MetricKey(x) # MetricKey(m)

save_metrics(table, tenant_id, metric_name, values) ==
  IF save_metrics_ok(table, tenant_id, metric_name, values)
    THEN table \cup metric_rows(tenant_id, metric_name, values)
  ELSE table

\* compute_all_kpis: the six computations, then the three save_metrics
\* calls, each with its own commit.  An IntegrityError leaves the rows of
\* the earlier calls committed and propagates to the caller.
compute_all_kpis(db, table, tenant_id, now, start_date, end_date) ==
  LET revenue == compute_revenue(db, tenant_id, start_date, end_date)
      expenses == compute_expenses(db, tenant_id, start_date, end_date)
      net_cash == compute_net_cash(db, tenant_id, start_date, end_date)
      burn_rate == compute_burn_rate(db, tenant_id, now, DefaultBurnDays)
      runway == compute_runway(db, tenant_id, now, FALSE, 0)
      growth == compute_growth_rate(db, tenant_id, now, DefaultPeriodDays)
      ok1 == save_metrics_ok(table, tenant_id, "revenue", revenue)
      table1 == save_metrics(table, tenant_id, "revenue", revenue)
      ok2 == ok1 /\ save_metrics_ok(table1, tenant_id, "expenses", expenses)
      table2 == IF ok1 THEN save_metrics(table1, tenant_id, "expenses", expenses) ELSE table1
      ok3 == ok2 /\ save_metrics_ok(table2, tenant_id, "net_cash", net_cash)
      table3 == IF ok2 THEN save_metrics(table2, tenant_id, "net_cash", net_cash) ELSE table2
  IN  [ok |-> ok3,
       table |-> table3,
       kpis |-> [revenue |-> SumValues(revenue),
                 expenses |-> SumValues(expenses),
                 net_cash |-> SumValues(net_cash),
                 burn_rate |-> burn_rate,
                 runway_days |-> runway,
                 growth_rate_pct |-> growth.growth_rate]]

----------------------------------------------------------------------------
(* etl/forecasts.py: ForecastEngine.  Prophet is the external library: its  *)
(* fitted values are left uninterpreted, its dates are those its           *)
(* make_future_dataframe documents.                                         *)

\* settings.forecast_min_data_points
forecast_min_data_points == 30

\* no date given (start_date=None, end_date=None)
NoDate == 0 - 1

RECURSIVE SortByDate(_)
SortByDate(rows) ==
  IF rows = {} THEN <<>>
  ELSE LET m == CHOOSE x \in rows : \A y \in rows : x.date <= y.date
       IN  <<m>> \o SortByDate(rows \ {m})

\* the DataFrame with columns ds, y, ordered by date
get_metric_history(table, tenant_id, metric, start_date, end_date) ==
  LET metrics == {m \in table : /\ m.tenant_id = tenant_id
                                /\ m.metric = metric
                                /\ (start_date # NoDate => m.date >= start_date)
                                /\ (end_date # NoDate => m.date <= end_date)}
      sorted == SortByDate(metrics)
  IN  [i \in 1..Len(sorted) |-> [ds |-> sorted[i].date, y |-> sorted[i].value]]

\* Prophet.fit raises ValueError on fewer than 2 rows
prophet_fit_ok(df) == Len(df) >= 2

\* model.make_future_dataframe(periods, freq="D"): the history's dates, then
\* one date per day after the last of them
make_future_dataframe(df, periods) ==
  [i \in 1..(Len(df) + periods) |->
     IF i <= Len(df) THEN df[i].ds ELSE df[Len(df)].ds + (i - Len(df))]

\* model.predict(future): one row per date
predict(future) ==
  [i \in 1..Len(future) |->
     [ds |-> future[i], yhat |-> "yhat", yhat_lower |-> "yhat_lower",
      yhat_upper |-> "yhat_upper"]]

\* DataFrame.tail(n)
tail(frame, n) ==
  IF n = 0 THEN <<>>
  ELSE IF n < 0 THEN SubSeq(frame, 1 - n, Len(frame))
  ELSE IF n >= Len(frame) THEN frame
  ELSE SubSeq(frame, Len(frame) - n + 1, Len(frame))

\* Timestamp.strftime("%Y-%m-%d")
strftime(d) == <<"%Y-%m-%d", d>>

\* the forecast built from every predicted row, the history's included
generate_forecast_all_rows(table, tenant_id, metric, horizon_days, has_min, min_points) ==
  LET min_data_points == IF has_min THEN min_points ELSE forecast_min_data_points
      df == get_metric_history(table, tenant_id, metric, NoDate, NoDate)
      future == make_future_dataframe(df, horizon_days)
      forecast == predict(future)
      future_forecast == forecast
      rows == 1..Len(future_forecast)
  IN  IF Len(df) = 0 \/ Len(df) < min_data_points THEN ValueError
      ELSE IF ~prophet_fit_ok(df) THEN ValueError
      ELSE IF future_forecast = <<>> THEN [error |-> "IndexError"]
      ELSE [metric |-> metric,
            horizon_days |-> horizon_days,
            series |-> [k \in {strftime(future_forecast[i].ds) : i \in rows} |->
                          "yhat"],
            confidence_intervals |->
               [k \in {strftime(future_forecast[i].ds) : i \in rows} |->
                  [lower |-> "yhat_lower", upper |-> "yhat_upper"]],
            accuracy_score |-> IF \A i \in 1..Len(df) : df[i].y = 0 THEN "None"
                               ELSE "score",
            model_type |-> "prophet",
            model_params |->
               [data_points |-> Len(df),
                forecast_start |-> strftime(future_forecast[1].ds),
                forecast_end |-> strftime(future_forecast[Len(future_forecast)].ds)]]

\* has_min: min_data_points is not None
generate_forecast(table, tenant_id, metric, horizon_days, has_min, min_points) ==
  LET min_data_points == IF has_min THEN min_points ELSE forecast_min_data_points
      df == get_metric_history(table, tenant_id, metric, NoDate, NoDate)
      future == make_future_dataframe(df, horizon_days)
      forecast == predict(future)
      future_forecast == tail(forecast, horizon_days)
      rows == 1..Len(future_forecast)
  IN  IF Len(df) = 0 \/ Len(df) < min_data_points THEN ValueError
      ELSE IF ~prophet_fit_ok(df) THEN ValueError
      ELSE IF future_forecast = <<>> THEN [error |-> "IndexError"]
      ELSE [metric |-> metric,
            horizon_days |-> horizon_days,
            series |-> [k \in {strftime(future_forecast[i].ds) : i \in rows} |->
                          "yhat"],
            confidence_intervals |->
               [k \in {strftime(future_forecast[i].ds) : i \in rows} |->
                  [lower |-> "yhat_lower", upper |-> "yhat_upper"]],
            accuracy_score |-> IF \A i \in 1..Len(df) : df[i].y = 0 THEN "None"
                               ELSE "score",
            model_type |-> "prophet",
            model_params |->
               [data_points |-> Len(df),
                forecast_start |-> strftime(future_forecast[1].ds),
                forecast_end |-> strftime(future_forecast[Len(future_forecast)].ds)]]

\* the Forecast row; id and created_at (datetime.utcnow) are the number of
\* the insert
save_forecast(table, tenant_id, forecast_data) ==
  Append(table, [id |-> Len(table) + 1,
                 created_at |-> Len(table) + 1,
                 tenant_id |-> tenant_id,
                 metric |-> forecast_data.metric,
                 horizon_days |-> forecast_data.horizon_days,
                 series |-> forecast_data.series,
                 confidence_intervals |-> forecast_data.confidence_intervals,
                 model_type |-> forecast_data.model_type,
                 model_params |-> forecast_data.model_params,
                 accuracy_score |-> forecast_data.accuracy_score])

NotFound == [error |-> "None"]

\* order_by(created_at.desc()).limit(1)
get_latest_forecast(table, tenant_id, metric) ==
  LET found == {i \in 1..Len(table) : /\ table[i].tenant_id = tenant_id
                                     /\ table[i].metric = metric}
      last == CHOOSE i \in found :
                \A j \in found : table[j].created_at <= table[i].created_at
  IN  IF found = {} THEN NotFound
      ELSE [id |-> table[last].id,
            metric |-> table[last].metric,
            horizon_days |-> table[last].horizon_days,
            series |-> table[last].series,
            confidence_intervals |-> table[last].confidence_intervals,
            accuracy_score |-> table[last].accuracy_score,
            created_at |-> table[last].created_at]

\* metrics = ["revenue", "expenses", "net_cash"]
ForecastMetrics == <<"revenue", "expenses", "net_cash">>

\* forecast_all_metrics from metric number i on.  acc holds the Forecast
\* table, the dict forecasts and the exception that left the loop; isolate:
\* the try is inside the loop.
RECURSIVE ForecastLoop(_, _, _, _, _, _)
RECURSIVE ForecastStep(_, _, _, _, _, _, _)
ForecastLoop(daily, acc, tenant_id, horizon_days, i, isolate) ==
  IF i > Len(ForecastMetrics) THEN acc
  ELSE ForecastStep(daily, acc, tenant_id, horizon_days, i, isolate,
                    generate_forecast(daily, tenant_id, ForecastMetrics[i],
                                      horizon_days, FALSE, 0))

\* one turn of the loop, on what generate_forecast returned or raised
ForecastStep(daily, acc, tenant_id, horizon_days, i, isolate, forecast) ==
  IF forecast = ValueError
    THEN IF isolate
           THEN ForecastLoop(daily,
                             [acc EXCEPT !.forecasts = Put(@, ForecastMetrics[i], forecast)],
                             tenant_id, horizon_days, i + 1, isolate)
         ELSE [acc EXCEPT !.forecasts = Put(@, ForecastMetrics[i], forecast)]
  ELSE IF IsError(forecast) THEN [acc EXCEPT !.raised = forecast.error]
  ELSE ForecastLoop(daily,
                    [acc EXCEPT !.table = save_forecast(@, tenant_id, forecast),
                                !.forecasts = Put(@, ForecastMetrics[i], forecast)],
                    tenant_id, horizon_days, i + 1, isolate)

\* the try around the whole loop: the first ValueError ends it
forecast_all_metrics_one_try(daily, table, tenant_id, horizon_days) ==
  ForecastLoop(daily, [table |-> table, forecasts |-> EmptyDict, raised |-> "None"],
               tenant_id, horizon_days, 1, FALSE)

forecast_all_metrics(daily, table, tenant_id, horizon_days) ==
  ForecastLoop(daily, [table |-> table, forecasts |-> EmptyDict, raised |-> "None"],
               tenant_id, horizon_days, 1, TRUE)

\* how many Forecast rows there may be before forecast_all_metrics runs
MaxForecastRows == 3

\* A call of ForecastEngine(session, tenant_id).forecast_all_metrics.
ForecastAllMetrics(tenant_id, horizon_days) ==
  /\ Len(forecasts) < MaxForecastRows
  /\ forecasts' = forecast_all_metrics(metrics_daily, forecasts, tenant_id,
                                       horizon_days).table
  /\ ret' = [op |-> "forecast_all_metrics",
             tenant_id |-> tenant_id,
             horizon_days |-> horizon_days,
             status |-> forecast_all_metrics(metrics_daily, forecasts, tenant_id,
                                             horizon_days).raised,
             forecasts |-> forecast_all_metrics(metrics_daily, forecasts, tenant_id,
                                                horizon_days).forecasts]
  /\ UNCHANGED <<today, sheet, transactions, datasources, fetched, metrics_daily,
                 tenants, requests, cat, call>>

----------------------------------------------------------------------------
(* api/routers/analytics.py: the GET handlers, for an authenticated user of *)
(* an active tenant                                                        *)

ValidMetrics == {"revenue", "expenses", "net_cash"}

\* Query(ge=7, le=365)
MinHorizon == 7

\* how far above the minimum the requested horizons go
MaxHorizonOffset == 1

Horizons == {MinHorizon, MinHorizon + MaxHorizonOffset}

\* the date ranges requested: the trailing 30 days, and everything
KpiRanges(now) == {<<now - DefaultPeriodDays, now>>, <<FarPast - 1, now>>}

\* GET /analytics/kpis
GetKpis(tenant_id, start_date, end_date) ==
  /\ LET r == compute_all_kpis(transactions, metrics_daily, tenant_id, today,
                               start_date, end_date)
     IN  /\ metrics_daily' = r.table
         /\ ret' = IF r.ok
                     THEN [op |-> "get_kpis", tenant_id |-> tenant_id,
                           status |-> 200, kpis |-> r.kpis]
                   ELSE [op |-> "get_kpis", tenant_id |-> tenant_id, status |-> 500]
  /\ UNCHANGED <<today, sheet, transactions, datasources, fetched, forecasts,
                 tenants, requests, cat, call>>

\* response_model=ForecastResponse, applied to what the handler returned:
\* created_at: str | None = None.  A dict without created_at gets the
\* default; the created_at of a stored row is a datetime, which is neither a
\* str nor None (ResponseValidationError).
ForecastResponse(content) ==
  IF "created_at" \in DOMAIN content THEN [error |-> "ResponseValidationError"]
  ELSE [metric |-> content.metric,
        horizon_days |-> content.horizon_days,
        series |-> content.series,
        confidence_intervals |-> content.confidence_intervals,
        accuracy_score |-> content.accuracy_score,
        created_at |-> "None"]

\* the response to a request whose handler returned content
Respond(tenant_id, metric, horizon_days, content) ==
  IF IsError(ForecastResponse(content))
    THEN [op |-> "get_forecast", tenant_id |-> tenant_id, metric |-> metric,
          horizon_days |-> horizon_days, status |-> 500]
  ELSE [op |-> "get_forecast", tenant_id |-> tenant_id, metric |-> metric,
        horizon_days |-> horizon_days, status |-> 200,
        body |-> ForecastResponse(content)]

\* GET /analytics/forecast/{metric}
GetForecast(tenant_id, metric, horizon_days) ==
  /\ LET latest == get_latest_forecast(forecasts, tenant_id, metric)
         forecast_data == generate_forecast(metrics_daily, tenant_id, metric,
                                            horizon_days, FALSE, 0)
     IN  IF metric \notin ValidMetrics
           THEN /\ forecasts' = forecasts
                /\ ret' = [op |-> "get_forecast", tenant_id |-> tenant_id,
                           metric |-> metric, horizon_days |-> horizon_days,
                           status |-> 400]
         ELSE IF latest # NotFound
           THEN /\ forecasts' = forecasts
                /\ ret' = Respond(tenant_id, metric, horizon_days, latest)
         ELSE IF IsError(forecast_data)
           THEN /\ forecasts' = forecasts
                /\ ret' = [op |-> "get_forecast", tenant_id |-> tenant_id,
                           metric |-> metric, horizon_days |-> horizon_days,
                           status |-> 400]
         ELSE /\ forecasts' = save_forecast(forecasts, tenant_id, forecast_data)
              /\ ret' = Respond(tenant_id, metric, horizon_days, forecast_data)
  /\ UNCHANGED <<today, sheet, transactions, datasources, fetched, metrics_daily,
                 tenants, requests, cat, call>>

----------------------------------------------------------------------------
(* api/deps.py: get_current_user and get_current_tenant, the dependencies  *)
(* of every analytics handler.  A header is the sequence of its parts      *)
(* between single spaces, which is what split(" ") gives.                  *)

\* no row of table users, no row of table tenants
NoUser == [auth_provider_id |-> "None"]

NoTenant == [status |-> "None"]

\* jwt.decode in verify_supabase_jwt: the payload of a token that verifies,
\* ValueError for any other
verify_supabase_jwt(token) ==
  IF token = "good" THEN [sub |-> "sub1", role |-> "authenticated"]
  ELSE IF token = "stranger" THEN [sub |-> "sub2", role |-> "authenticated"]
  ELSE IF token = "emptysub" THEN [sub |-> "", role |-> "authenticated"]
  ELSE IF token = "nosub" THEN [role |-> "authenticated"]
  ELSE ValueError

\* authorization.startswith("Bearer ")
startswith_Bearer(authorization) ==
  Len(authorization) >= 2 /\ authorization[1] = "Bearer"

\* payload.get("sub")
get_sub(payload) == IF "sub" \in DOMAIN payload THEN payload.sub ELSE "None"

\* the try block: the sub claim of the token, or the 401 every exception
\* in it becomes
auth_provider_id(authorization) ==
  IF ~startswith_Bearer(authorization) THEN [error |-> 401]
  ELSE IF IsError(verify_supabase_jwt(authorization[2])) THEN [error |-> 401]
  ELSE IF get_sub(verify_supabase_jwt(authorization[2])) \in {"None", ""}
    THEN [error |-> 401]
  ELSE [sub |-> get_sub(verify_supabase_jwt(authorization[2]))]

\* select(User).where(User.auth_provider_id == auth_provider_id)
select_user(users, sub) ==
  IF \E u \in users : u.auth_provider_id = sub
    THEN CHOOSE u \in users : u.auth_provider_id = sub
  ELSE NoUser

\* not user or not user.is_active, without the second test
user_rejected_missing(user) == user = NoUser

\* not user or not user.is_active
user_rejected(user) == user = NoUser \/ ~user.is_active

get_current_user(authorization, users) ==
  IF IsError(auth_provider_id(authorization)) THEN [error |-> 401]
  ELSE IF user_rejected(select_user(users, auth_provider_id(authorization).sub))
    THEN [error |-> 401]
  ELSE select_user(users, auth_provider_id(authorization).sub)

\* tenant: the row of current_user.tenant_id, NoTenant when there is none
get_current_tenant(tenant) ==
  IF tenant = NoTenant THEN [error |-> 404]
  ELSE IF tenant.status # "active" THEN [error |-> 403]
  ELSE tenant

\* FastAPI resolves get_current_user.  authorization: Annotated[str,
\* Header()] is required: a request without the header is answered 422 and
\* the function is not called.
ResolveUser ==
  /\ call.op = "request"
  /\ call.pc = "user"
  /\ call' = IF ~call.has_header
               THEN [call EXCEPT !.pc = "done", !.status = 422]
             ELSE IF IsError(get_current_user(call.authorization, call.users))
               THEN [call EXCEPT !.pc = "done", !.status = 401]
             ELSE [call EXCEPT !.pc = "tenant",
                               !.current_user =
                                  get_current_user(call.authorization, call.users)]
  /\ UNCHANGED <<today, sheet, transactions, datasources, fetched, metrics_daily,
                 forecasts, tenants, requests, ret, cat>>

\* FastAPI resolves get_current_tenant, once get_current_user has returned
ResolveTenant ==
  /\ call.op = "request"
  /\ call.pc = "tenant"
  /\ call' = IF IsError(get_current_tenant(call.tenant))
               THEN [call EXCEPT !.pc = "done",
                                 !.status = get_current_tenant(call.tenant).error]
             ELSE [call EXCEPT !.pc = "handler",
                               !.current_tenant = get_current_tenant(call.tenant)]
  /\ UNCHANGED <<today, sheet, transactions, datasources, fetched, metrics_daily,
                 forecasts, tenants, requests, ret, cat>>

\* the handler runs, every dependency resolved
RunAnalyticsHandler ==
  /\ call.op = "request"
  /\ call.pc = "handler"
  /\ call' = [call EXCEPT !.pc = "done", !.status = 200, !.handled = TRUE]
  /\ UNCHANGED <<today, sheet, transactions, datasources, fetched, metrics_daily,
                 forecasts, tenants, requests, ret, cat>>

----------------------------------------------------------------------------
(* ai/llm.py: call_gpt under its tenacity decorator.  The API is the        *)
(* external service: each attempt gets one of its answers.                  *)

\* settings.ai_retry_attempts
ai_retry_attempts == 3

\* client.chat.completions.create: a response with content, a response
\* without, or one of the exceptions of the openai package
ApiAnswers ==
  {"content", "empty", "openai.RateLimitError", "openai.APITimeoutError",
   "openai.APIError"}

\* the body of call_gpt on one answer: "return", or the exception that
\* leaves it; RateLimitError is the class this module defines
call_gpt_body(answer) ==
  IF answer = "content" THEN "return"
  ELSE IF answer = "empty" THEN "ValueError"
  ELSE IF answer = "openai.RateLimitError" THEN "RateLimitError"
  ELSE IF answer = "openai.APITimeoutError" THEN "openai.APITimeoutError"
  ELSE "ValueError"

\* retry=retry_if_exception_type((openai.RateLimitError, openai.APITimeoutError))
retry_if_exception_type(exception) ==
  exception \in {"openai.RateLimitError", "openai.APITimeoutError"}

\* the decorator from attempt number attempt on: the content is named by
\* the attempt that received it; stop_after_attempt raises RetryError
RECURSIVE Retrying(_, _)
Retrying(answers, attempt) ==
  LET outcome == call_gpt_body(answers[attempt])
  IN  IF outcome = "return"
        THEN [outcome |-> "return", content |-> attempt, attempts |-> attempt]
      ELSE IF ~retry_if_exception_type(outcome)
        THEN [outcome |-> outcome, content |-> 0, attempts |-> attempt]
      ELSE IF attempt >= ai_retry_attempts
        THEN [outcome |-> "RetryError", content |-> 0, attempts |-> attempt]
      ELSE Retrying(answers, attempt + 1)

call_gpt(answers) == Retrying(answers, 1)

\* A call of call_gpt.
CallGpt ==
  /\ call.op = "call_gpt"
  /\ ~call.done
  /\ call' = [call EXCEPT !.result = call_gpt(call.answers), !.done = TRUE]
  /\ UNCHANGED <<today, sheet, transactions, datasources, fetched, metrics_daily,
                 forecasts, tenants, requests, ret, cat>>

----------------------------------------------------------------------------
(* api/deps.py, api/routers/analytics.py, ai/analyzers.py: the AI          *)
(* endpoints.  Each request has its own session: the Tenant object it      *)
(* loads when its dependencies are resolved is the one check_ai_quota      *)
(* tests and the handler increments (expire_on_commit=False).              *)

Requests == {"R1", "R2"}

Endpoints == {"summary", "forecast", "expense"}

\* the largest monthly quota a tenant row holds
MaxAiCalls == 2

\* what the language-model call does: a JSON object with the fields asked
\* for, a JSON object without them, an APIError or invalid JSON
\* (ValueError), or retries exhausted or a rate limit (RetryError,
\* RateLimitError: neither is a ValueError)
LlmOutcomes == {"ok", "incomplete", "ValueError", "RetryError"}

\* the first days of the months from 2020-01 to 2021-03, counted from FarPast
MonthOffsets == {0, 31, 60, 91, 121, 152, 182, 213, 244, 274, 305, 335, 366, 397, 425}

\* date.replace(day=1), for a date in those months
first_of_month(d) ==
  LET before == {o \in MonthOffsets : FarPast + o <= d}
  IN  FarPast + (CHOOSE o \in before : \A p \in before : p <= o)

\* json.dumps(user_content) in generate_json_response: the context of the
\* forecast analysis embeds the dict of compute_all_kpis, whose "period"
\* holds datetime.date objects, which json.dumps rejects (TypeError)
json_dumps_ok(endpoint) == endpoint # "forecast"

Idle == [pc |-> "idle", endpoint |-> "None", tenant_id |-> "None",
         metric |-> "None", horizon_days |-> 0, start_date |-> 0, end_date |-> 0,
         ai_calls_this_month |-> 0, status |-> 0]

\* the quota test passing a tenant that has used exactly its quota
check_ai_quota_above(tenant) ==
  tenant.ai_calls_this_month > tenant.max_ai_calls_per_month

\* check_ai_quota raises HTTPException(429)
check_ai_quota(tenant) ==
  tenant.ai_calls_this_month >= tenant.max_ai_calls_per_month

\* The dependencies of an AI endpoint: get_current_tenant loads the tenant,
\* check_ai_quota raises 429 when the quota is used up.
StartRequest(r, endpoint, tenant_id, metric, horizon_days, start_date, end_date) ==
  /\ requests[r].pc = "idle"
  /\ LET tenant == tenants[tenant_id]
         rejected == check_ai_quota(tenant)
     IN  requests' = [requests EXCEPT ![r] =
           [pc |-> IF rejected THEN "done" ELSE "handler",
            endpoint |-> endpoint,
            tenant_id |-> tenant_id,
            metric |-> metric,
            horizon_days |-> horizon_days,
            start_date |-> start_date,
            end_date |-> end_date,
            ai_calls_this_month |-> tenant.ai_calls_this_month,
            status |-> IF rejected THEN 429 ELSE 0]]
  /\ UNCHANGED <<today, sheet, transactions, datasources, fetched, metrics_daily,
                 forecasts, tenants, ret, cat, call>>

\* the status of a handler whose language-model call is reached
LlmStatus(endpoint, llm) ==
  IF ~json_dumps_ok(endpoint) THEN 500
  ELSE IF llm \in {"ok", "incomplete"} THEN 200
  ELSE IF llm = "ValueError" /\ endpoint = "forecast" THEN 400
  ELSE 500

\* the status of the response: response_model=AISummaryResponse is
\* validated after the handler has returned (ResponseValidationError)
ResponseStatus(endpoint, llm, status) ==
  IF status = 200 /\ endpoint = "summary" /\ llm = "incomplete" THEN 500
  ELSE status

\* The handler body: generate_financial_summary, generate_forecast_analysis
\* or generate_expense_analysis, then on success the increment of the
\* loaded tenant's counter and the commit that writes it.
RunHandler(r, llm) ==
  /\ requests[r].pc = "handler"
  /\ LET q == requests[r]
         t == q.tenant_id
         forecast == generate_forecast(metrics_daily, t, q.metric, q.horizon_days,
                                       FALSE, 0)
         start_date == IF q.endpoint = "forecast" THEN first_of_month(today)
                       ELSE q.start_date
         end_date == IF q.endpoint = "forecast" THEN today ELSE q.end_date
         kp == compute_all_kpis(transactions, metrics_daily, t, today,
                                start_date, end_date)
         early == IF q.endpoint = "forecast" /\ q.metric \notin ValidMetrics THEN 400
                  ELSE IF q.endpoint = "forecast" /\ IsError(forecast) THEN 400
                  ELSE 0
         uses_kpis == q.endpoint \in {"summary", "forecast"} /\ early = 0
         status == IF early # 0 THEN early
                   ELSE IF uses_kpis /\ ~kp.ok THEN 500
                   ELSE LlmStatus(q.endpoint, llm)
     IN  /\ metrics_daily' = IF uses_kpis THEN kp.table ELSE metrics_daily
         /\ forecasts' = IF status = 200 /\ q.endpoint = "forecast"
                           THEN save_forecast(forecasts, t, forecast)
                         ELSE forecasts
         /\ tenants' = IF status = 200
                         THEN [tenants EXCEPT ![t].ai_calls_this_month =
                                                q.ai_calls_this_month + 1]
                       ELSE tenants
         /\ requests' = [requests EXCEPT ![r] =
               [q EXCEPT !.pc = "done",
                         !.status = ResponseStatus(q.endpoint, llm, status)]]
  /\ UNCHANGED <<today, sheet, transactions, datasources, fetched, ret, cat, call>>

----------------------------------------------------------------------------
(* Specifications                                                          *)

NoRet == [op |-> "None", tenant_id |-> "None", status |-> "None"]

NoTenantUse(quota) ==
  [t \in Tenants |-> [ai_calls_this_month |-> 0, max_ai_calls_per_month |-> quota]]

\* the transactions a first run of datasource ds stores from rows
IngestedRows(ds, rows, now) ==
  Range(save_loop(detect_duplicates(extract_transactions(DsSpreadsheet(ds), rows)),
                  1, DsTenant(ds), ds, {}, now))

\* A new database, a spreadsheet with some rows, no request in flight.
InitEmpty ==
  /\ today = Today0
  /\ transactions = {}
  /\ datasources = [ds \in DataSourceIds |-> NoSync]
  /\ fetched = [ds \in DataSourceIds |-> NoFetch]
  /\ metrics_daily = {}
  /\ forecasts = <<>>
  /\ tenants = NoTenantUse(MaxAiCalls)
  /\ requests = [r \in Requests |-> Idle]
  /\ ret = NoRet
  /\ cat = NoCall
  /\ call = Uncalled

\* the spreadsheets of the pipeline
PipelineSheets == {<<Rows[5], Rows[2], Rows[6]>>, LongSheet}

Init ==
  /\ sheet \in PipelineSheets
  /\ InitEmpty

\* The pipeline, one task or request at a time: ingestion, KPIs, forecasts.
Next ==
  \/ \E ds \in {"DS1", "DS3"} : IngestDatasource(ds, "ok")
  \/ \E t \in Tenants : \E r \in KpiRanges(today) : GetKpis(t, r[1], r[2])
  \/ \E t \in Tenants, m \in {"revenue", "runway"}, h \in Horizons :
       GetForecast(t, m, h)

Spec == Init /\ [][Next]_vars

InitIngest ==
  /\ sheet \in Sheets
  /\ InitEmpty

\* Ingestion runs of the sheet datasources, over the days.
NextIngest ==
  \/ AdvanceDay
  \/ \E ds \in SheetSources : IngestDatasource(ds, "ok")

SpecIngest == InitIngest /\ [][NextIngest]_vars

\* Tenant T1 has ingested its spreadsheet; two AI requests arrive.
InitAI ==
  /\ today = Today0
  /\ sheet = <<Rows[5], Rows[2], Rows[6]>>
  /\ transactions = IngestedRows("DS1", sheet, Today0)
  /\ datasources = [ds \in DataSourceIds |->
        IF ds = "DS1" THEN [NoSync EXCEPT !.last_sync_status = "success",
                                          !.sync_count = 1]
        ELSE NoSync]
  /\ fetched = [ds \in DataSourceIds |->
        IF ds = "DS1"
          THEN [rows |-> extract_transactions(DsSpreadsheet(ds), sheet),
                day |-> Today0, done |-> TRUE]
        ELSE NoFetch]
  /\ metrics_daily = {}
  /\ forecasts = <<>>
  /\ \E quota \in 1..MaxAiCalls : tenants = NoTenantUse(quota)
  /\ requests = [r \in Requests |-> Idle]
  /\ ret = NoRet
  /\ cat = NoCall
  /\ call = Uncalled

NextAI ==
  \/ \E r \in Requests, t \in Tenants :
       \/ \E e \in {"summary", "expense"} : \E d \in KpiRanges(today) :
            StartRequest(r, e, t, "None", 0, d[1], d[2])
       \/ \E m \in {"revenue", "runway"} :
            StartRequest(r, "forecast", t, m, MinHorizon, 0, 0)
  \/ \E r \in Requests, llm \in LlmOutcomes : RunHandler(r, llm)

SpecAI == InitAI /\ [][NextAI]_vars

\* a call of categorize_transaction, as enrich_transaction makes it
Categorize ==
  /\ ~cat.done
  /\ cat' = [cat EXCEPT
               !.category = categorize_transaction(cat.description, cat.amount,
                                                   cat.existing_category),
               !.done = TRUE]
  /\ UNCHANGED <<today, sheet, transactions, datasources, fetched, metrics_daily,
                 forecasts, tenants, requests, ret, call>>

InitCat ==
  /\ today = Today0
  /\ sheet = <<>>
  /\ transactions = {}
  /\ datasources = [ds \in DataSourceIds |-> NoSync]
  /\ fetched = [ds \in DataSourceIds |-> NoFetch]
  /\ metrics_daily = {}
  /\ forecasts = <<>>
  /\ tenants = NoTenantUse(MaxAiCalls)
  /\ requests = [r \in Requests |-> Idle]
  /\ ret = NoRet
  /\ cat \in [description : CatDescriptions, amount : CatAmounts,
              existing_category : CatCategories, category : {None},
              done : {FALSE}]
  /\ call = Uncalled

NextCat == Categorize

SpecCat == InitCat /\ [][NextCat]_vars

\* the database and the requests of the specifications of single calls
InitNoData ==
  /\ today = Today0
  /\ sheet = <<>>
  /\ transactions = {}
  /\ datasources = [ds \in DataSourceIds |-> NoSync]
  /\ fetched = [ds \in DataSourceIds |-> NoFetch]
  /\ metrics_daily = {}
  /\ forecasts = <<>>
  /\ tenants = NoTenantUse(MaxAiCalls)
  /\ requests = [r \in Requests |-> Idle]
  /\ ret = NoRet
  /\ cat = NoCall

\* call_gpt on every sequence of answers of the API
InitGpt ==
  /\ InitNoData
  /\ call \in [op : {"call_gpt"}, answers : [1..ai_retry_attempts -> ApiAnswers],
                result : {"None"}, done : {FALSE}]

NextGpt == CallGpt

SpecGpt == InitGpt /\ [][NextGpt]_vars

\* Both tenants have ingested the spreadsheet; KPIs are computed and
\* forecasts made of the stored metrics.
InitForecast ==
  /\ today = Today0
  /\ sheet \in PipelineSheets
  /\ transactions = IngestedRows("DS1", sheet, Today0) \cup IngestedRows("DS3", sheet, Today0)
  /\ datasources = [ds \in DataSourceIds |->
        IF ds \in {"DS1", "DS3"}
          THEN [NoSync EXCEPT !.last_sync_status = "success", !.sync_count = 1]
        ELSE NoSync]
  /\ fetched = [ds \in DataSourceIds |->
        IF ds \in {"DS1", "DS3"}
          THEN [rows |-> extract_transactions(DsSpreadsheet(ds), sheet),
                day |-> Today0, done |-> TRUE]
        ELSE NoFetch]
  /\ metrics_daily = {}
  /\ forecasts = <<>>
  /\ tenants = NoTenantUse(MaxAiCalls)
  /\ requests = [r \in Requests |-> Idle]
  /\ ret = NoRet
  /\ cat = NoCall
  /\ call = Uncalled

NextForecast ==
  \/ \E t \in Tenants : \E r \in KpiRanges(today) : GetKpis(t, r[1], r[2])
  \/ \E t \in Tenants, h \in {0, 1, MinHorizon} : ForecastAllMetrics(t, h)

SpecForecast == InitForecast /\ [][NextForecast]_vars

\* what the outside answers to a run of the ingestion task
Fetches == {"ok", "error", "InvalidToken"}

\* the spreadsheets, the status of each datasource, and what the outside
\* answers to the run of each datasource in a run of all
SyncSheets == {<<Rows[4], Rows[1]>>}

DisconnectedSets == {{}, {"DS2"}}

FetchPlans ==
  {[ds \in DataSourceIds |-> "ok"],
   [ds \in DataSourceIds |-> IF ds = "DS1" THEN "error" ELSE "ok"],
   [ds \in DataSourceIds |-> IF ds = "DS3" THEN "InvalidToken" ELSE "ok"]}

InitSync ==
  /\ sheet \in SyncSheets
  /\ today = Today0
  /\ transactions = {}
  /\ datasources \in {[ds \in DataSourceIds |->
                         IF ds \in off THEN [NoSync EXCEPT !.status = "disconnected"]
                         ELSE NoSync] : off \in DisconnectedSets}
  /\ fetched = [ds \in DataSourceIds |-> NoFetch]
  /\ metrics_daily = {}
  /\ forecasts = <<>>
  /\ tenants = NoTenantUse(MaxAiCalls)
  /\ requests = [r \in Requests |-> Idle]
  /\ ret = NoRet
  /\ cat = NoCall
  /\ call = Uncalled

\* Runs of the two ingestion tasks, whatever the outside answers.
NextSync ==
  \/ \E ds \in DataSourceIds, fetch \in Fetches : IngestDatasource(ds, fetch)
  \/ \E t \in Tenants, fetches \in FetchPlans : IngestAllTenantSources(t, fetches)

SpecSync == InitSync /\ [][NextSync]_vars

\* the longest list detect_duplicates is called with
MaxTransactions == 3

\* transactions to deduplicate: two rows of a sheet with the same date,
\* amount and description, one that differs in the description, one of
\* another amount, and one without a description
DedupTransactions ==
  {[date |-> Today0, amount |-> 10, description |-> <<"f", "e", "e">>,
    external_id |-> <<"sheets", "S1", 2>>],
   [date |-> Today0, amount |-> 10, description |-> <<"f", "e", "e">>,
    external_id |-> <<"sheets", "S1", 3>>],
   [date |-> Today0, amount |-> 10, description |-> <<>>,
    external_id |-> <<"sheets", "S1", 4>>],
   [date |-> Today0, amount |-> -10, description |-> <<"f", "e", "e">>,
    external_id |-> <<"sheets", "S1", 5>>],
   [date |-> Today0, amount |-> 10, external_id |-> <<"qb", 6>>]}

SeqsUpTo(S, n) == UNION {[1..k -> S] : k \in 0..n}

InitDedup ==
  /\ InitNoData
  /\ call \in [op : {"detect_duplicates"},
                transactions : SeqsUpTo(DedupTransactions, MaxTransactions),
                result : {<<>>}, done : {FALSE}]

NextDedup == DetectDuplicates

SpecDedup == InitDedup /\ [][NextDedup]_vars

\* rows for the derived metrics: sales in the current and in the previous
\* period, a refund and a chargeback booked as sales, expenses inside and
\* outside the burn window, and a credit in an expense category
KpiRows ==
  << [date |-> Today0 - 1, amount |-> 50, category |-> <<"s","a","l","e","s">>,
      description |-> <<"I","n","v","o","i","c","e"," ","4","2">>],
     [date |-> Today0 - 40, amount |-> 20, category |-> <<"s","a","l","e","s">>,
      description |-> <<"I","n","v","o","i","c","e"," ","7">>],
     [date |-> Today0, amount |-> -5, category |-> <<"s","a","l","e","s">>,
      description |-> <<"R","e","f","u","n","d">>],
     [date |-> Today0 - 1, amount |-> -20, category |-> <<>>,
      description |-> <<"A","W","S"," ","b","i","l","l">>],
     [date |-> Today0 - 40, amount |-> -10, category |-> <<"M","i","s","c">>,
      description |-> <<"L","u","n","c","h">>],
     [date |-> Today0 - 2, amount |-> 15, category |-> <<"s","o","f","t","w","a","r","e">>,
      description |-> <<"C","r","e","d","i","t">>],
     [date |-> Today0 - 45, amount |-> -30, category |-> <<"s","a","l","e","s">>,
      description |-> <<"C","h","a","r","g","e","b","a","c","k">>] >>

\* the rows of KpiRows whose numbers are in keep, in their order
RECURSIVE SubSheet(_, _)
SubSheet(keep, i) ==
  IF i > Len(KpiRows) THEN <<>>
  ELSE IF i \in keep THEN <<KpiRows[i]>> \o SubSheet(keep, i + 1)
  ELSE SubSheet(keep, i + 1)

KpiSheets == {SubSheet(keep, 1) : keep \in SUBSET (1..Len(KpiRows))}

\* Datasource DS1 has ingested the spreadsheet once.
InitKpi ==
  /\ today = Today0
  /\ sheet \in KpiSheets
  /\ transactions = IngestedRows("DS1", sheet, Today0)
  /\ datasources = [ds \in DataSourceIds |->
        IF ds = "DS1"
          THEN [NoSync EXCEPT !.last_sync_status = "success", !.sync_count = 1]
        ELSE NoSync]
  /\ fetched = [ds \in DataSourceIds |->
        IF ds = "DS1"
          THEN [rows |-> extract_transactions(DsSpreadsheet(ds), sheet),
                day |-> Today0, done |-> TRUE]
        ELSE NoFetch]
  /\ metrics_daily = {}
  /\ forecasts = <<>>
  /\ tenants = NoTenantUse(MaxAiCalls)
  /\ requests = [r \in Requests |-> Idle]
  /\ ret = NoRet
  /\ cat = NoCall
  /\ call = Uncalled

\* KPI requests on what was ingested.
NextKpi == \E t \in Tenants : \E r \in KpiRanges(today) : GetKpis(t, r[1], r[2])

SpecKpi == InitKpi /\ [][NextKpi]_vars

\* The requests: an Authorization header, or none; a users table with the
\* user of the token's sub, active or not, or without; the tenant of that
\* user, in each status or missing.
Authorizations ==
  {<<"Bearer", "good">>, <<"Bearer", "good", "junk">>, <<"Bearer", "stranger">>,
   <<"Bearer", "emptysub">>, <<"Bearer", "nosub">>, <<"Bearer", "bad">>,
   <<"Bearer", "">>, <<"Bearer", "", "good">>, <<"Bearer">>, <<"Basic", "good">>,
   <<"bearer", "good">>, <<"good">>}

UserTables ==
  {{}} \cup {{[auth_provider_id |-> "sub1", is_active |-> a, tenant_id |-> "T1"]} :
               a \in BOOLEAN}

TenantRows == {NoTenant} \cup [status : {"active", "suspended", "cancelled"}]

InitAuth ==
  /\ InitNoData
  /\ call \in [op : {"request"}, has_header : BOOLEAN,
                authorization : Authorizations, users : UserTables,
                tenant : TenantRows, pc : {"user"}, status : {0},
                current_user : {NoUser}, current_tenant : {NoTenant},
                handled : {FALSE}]

NextAuth ==
  \/ ResolveUser
  \/ ResolveTenant
  \/ RunAnalyticsHandler

SpecAuth == InitAuth /\ [][NextAuth]_vars

----------------------------------------------------------------------------
(* Properties of ingestion (SpecIngest)                                    *)

\* C1: after any sequence of ingest_datasource runs, re-runs and runs of
\* another datasource of the tenant on the same spreadsheet included, the
\* store holds at most one Transaction row per (tenant_id, external_id).
C1_OneRowPerExternalId ==
  \A a, b \in transactions :
     (a.tenant_id = b.tenant_id /\ a.external_id = b.external_id) => a = b

\* two datasources of tenant T1 have ingested the same rows, one of them twice
C1_Witness ==
  /\ datasources["DS1"].sync_count = 2
  /\ datasources["DS2"].sync_count >= 1
  /\ Cardinality({t \in transactions : t.tenant_id = "T1"}) >= 2

\* the step is a run of ingest_datasource for ds that fetches the rows its
\* last successful run fetched
SecondRun(ds) ==
  /\ datasources'[ds] # datasources[ds]
  /\ fetched[ds].done
  /\ extract_transactions(DsSpreadsheet(ds), sheet) = fetched[ds].rows

\* the run reports transactions_saved = 0 and leaves the store as it was
SavesNothing ==
  /\ ret'.status = "success"
  /\ ret'.transactions_saved = 0
  /\ transactions' = transactions

\* C4 as stated: a second run of ingest_datasource with the same fetched rows
\* reports transactions_saved = 0 and leaves the Transaction rows unchanged.
C4_Original ==
  [][\A ds \in DataSourceIds : SecondRun(ds) => SavesNothing]_vars

\* a fetched row whose date was in the future at the last successful run of
\* ds and no longer is
CameDue(ds) ==
  \E i \in 1..Len(fetched[ds].rows) :
     /\ fetched[ds].rows[i].date > fetched[ds].day
     /\ fetched[ds].rows[i].date <= today

\* C4: a second run of ingest_datasource with the same fetched rows, none of
\* which was dated after the first run's date.today() and is dated on or
\* before the second run's, reports transactions_saved = 0 and leaves the
\* Transaction rows unchanged.
C4_Idempotent ==
  [][\A ds \in DataSourceIds : (SecondRun(ds) /\ ~CameDue(ds)) => SavesNothing]_vars

\* a second run has saved nothing after a first run that stored rows
C4_Witness ==
  \E ds \in DataSourceIds :
     /\ datasources[ds].sync_count = 2
     /\ ret.op = "ingest_datasource"
     /\ ret.datasource_id = ds
     /\ ret.status = "success"
     /\ ret.transactions_saved = 0
     /\ \E t \in transactions : t.data_source_id = ds

\* C7: compute_net_cash returns a map whose keys are exactly the dates of
\* compute_revenue and compute_expenses for the range, with
\* net_cash[d] = revenue[d] - expenses[d], a missing entry counting as 0.
C7_NetCash ==
  \A t \in Tenants : \A r \in KpiRanges(today) :
     LET revenue == compute_revenue(transactions, t, r[1], r[2])
         expenses == compute_expenses(transactions, t, r[1], r[2])
         net_cash == compute_net_cash(transactions, t, r[1], r[2])
     IN  /\ DOMAIN net_cash = DOMAIN revenue \cup DOMAIN expenses
         /\ \A d \in DOMAIN net_cash :
              net_cash[d] = (IF d \in DOMAIN revenue THEN revenue[d] ELSE 0)
                              - (IF d \in DOMAIN expenses THEN expenses[d] ELSE 0)

\* a tenant has a date with revenue and expenses and a date with expenses only
C7_Witness ==
  \E t \in Tenants : \E r \in KpiRanges(today) :
     LET revenue == compute_revenue(transactions, t, r[1], r[2])
         expenses == compute_expenses(transactions, t, r[1], r[2])
     IN  /\ DOMAIN revenue \cap DOMAIN expenses # {}
         /\ DOMAIN expenses \ DOMAIN revenue # {}

----------------------------------------------------------------------------
(* Properties of the derived metrics (SpecIngest)                           *)

\* the window lengths compute_burn_rate is asked for
BurnDays == {1, DefaultBurnDays, 60}

\* C8 as stated: compute_burn_rate(days) returns (total expenses minus total
\* revenue of the tenant's transactions in the trailing window ending today)
\* divided by days, and 0 when the window holds no expense transactions.
C8_Original ==
  \A t \in Tenants : \A days \in BurnDays :
     LET revenue == compute_revenue(transactions, t, today - days, today)
         expenses == compute_expenses(transactions, t, today - days, today)
     IN  compute_burn_rate(transactions, t, today, days) =
           IF DOMAIN expenses = {} THEN Zero
           ELSE decimal_truediv(Decimal(SumValues(expenses) - SumValues(revenue)),
                                Decimal(days))

\* the tenant's expense transactions dated from lo to hi: the rows with an
\* expense category or a negative amount
ExpenseRows(t, lo, hi) ==
  {x \in transactions : /\ x.tenant_id = t
                        /\ x.date >= lo
                        /\ x.date <= hi
                        /\ (x.category \in expense_categories \/ x.amount < 0)}

\* the sum over the days of |the sum of the day's amounts|
RECURSIVE TotalByDay(_)
TotalByDay(rows) ==
  IF rows = {} THEN 0
  ELSE LET d == (CHOOSE x \in rows : TRUE).date
           day == {x \in rows : x.date = d}
       IN  Abs(SumAmounts(day)) + TotalByDay(rows \ day)

\* C8: compute_burn_rate(days) returns the tenant's total expenses in the
\* window from today - days to today, both included, divided by days as a
\* Decimal, revenue not subtracted, where the total adds, for each day, the
\* absolute value of the sum of the day's expense transactions; it returns 0
\* when the window holds no expense transactions.
C8_BurnRate ==
  \A t \in Tenants : \A days \in BurnDays :
     LET rows == ExpenseRows(t, today - days, today)
     IN  compute_burn_rate(transactions, t, today, days) =
           IF rows = {} THEN Decimal(0)
           ELSE decimal_truediv(Decimal(TotalByDay(rows)), Decimal(days))

\* a tenant has revenue and expenses in the trailing window, and a burn rate
C8_Witness ==
  \E t \in Tenants :
     /\ ExpenseRows(t, today - DefaultBurnDays, today) # {}
     /\ DOMAIN compute_revenue(transactions, t, today - DefaultBurnDays, today) # {}
     /\ ~is_zero(compute_burn_rate(transactions, t, today, DefaultBurnDays))

\* C9 as stated: when burn rate > 0 and current cash > 0, compute_runway
\* returns floor(current_cash / burn_rate), where current_cash is the sum of
\* the amounts of all the tenant's transactions up to today; when burn rate
\* is 0 it returns 999.
C9_Runway ==
  \A t \in Tenants :
     LET rows == ExpenseRows(t, today - DefaultBurnDays, today)
         total == TotalByDay(rows)
         current_cash == SumAmounts({x \in transactions : /\ x.tenant_id = t
                                                        /\ x.date <= today})
         runway == compute_runway(transactions, t, today, FALSE, 0)
     IN  /\ total = 0 => runway = 999
         /\ (total > 0 /\ current_cash > 0) =>
               runway = (current_cash * DefaultBurnDays) \div total

----------------------------------------------------------------------------
(* Properties of the tenant partition and of forecasts (Spec)              *)

\* the rows of tenant t
OnlyTenant(rows, t) == {x \in rows : x.tenant_id = t}

\* the Forecast rows of tenant t, in insertion order
OnlyTenantSeq(table, t) ==
  LET RECURSIVE Keep(_)
      Keep(i) == IF i > Len(table) THEN <<>>
                 ELSE IF table[i].tenant_id = t THEN <<table[i]>> \o Keep(i + 1)
                 ELSE Keep(i + 1)
  IN  Keep(1)

StoredMetrics == {"revenue", "expenses", "net_cash"}

\* C2: the results of compute_revenue, compute_expenses, compute_net_cash,
\* compute_burn_rate, compute_runway, compute_growth_rate,
\* get_metric_history and get_latest_forecast of an engine of tenant T are
\* those the same calls give on the store without the rows of the other
\* tenants, so two stores that agree on T's rows give the same results.
C2_ReadIsolation ==
  \A t \in Tenants :
     LET own == OnlyTenant(transactions, t)
         own_metrics == OnlyTenant(metrics_daily, t)
         own_forecasts == OnlyTenantSeq(forecasts, t)
     IN  /\ \A r \in KpiRanges(today) :
              /\ compute_revenue(transactions, t, r[1], r[2])
                   = compute_revenue(own, t, r[1], r[2])
              /\ compute_expenses(transactions, t, r[1], r[2])
                   = compute_expenses(own, t, r[1], r[2])
              /\ compute_net_cash(transactions, t, r[1], r[2])
                   = compute_net_cash(own, t, r[1], r[2])
         /\ compute_burn_rate(transactions, t, today, DefaultBurnDays)
              = compute_burn_rate(own, t, today, DefaultBurnDays)
         /\ compute_runway(transactions, t, today, FALSE, 0)
              = compute_runway(own, t, today, FALSE, 0)
         /\ compute_growth_rate(transactions, t, today, DefaultPeriodDays)
              = compute_growth_rate(own, t, today, DefaultPeriodDays)
         /\ \A m \in StoredMetrics :
              /\ get_metric_history(metrics_daily, t, m, NoDate, NoDate)
                   = get_metric_history(own_metrics, t, m, NoDate, NoDate)
              /\ get_latest_forecast(forecasts, t, m)
                   = get_latest_forecast(own_forecasts, t, m)

\* both tenants have transactions, daily metrics and a forecast
C2_Witness ==
  \A t \in Tenants :
     /\ OnlyTenant(transactions, t) # {}
     /\ OnlyTenant(metrics_daily, t) # {}
     /\ OnlyTenantSeq(forecasts, t) # <<>>

\* C3: a run of ingest_datasource for a datasource of tenant T, and the
\* save_metrics and save_forecast calls of a request of tenant T, create
\* only rows whose tenant_id is T and leave the rows of every other tenant
\* as they were.
C3_WritePartition ==
  [][/\ \A x \in (transactions' \ transactions) \cup (metrics_daily' \ metrics_daily) :
          x.tenant_id = ret'.tenant_id
     /\ \A i \in (Len(forecasts) + 1)..Len(forecasts') :
          forecasts'[i].tenant_id = ret'.tenant_id
     /\ ret'.op = "ingest_datasource" => ret'.tenant_id = DsTenant(ret'.datasource_id)
     /\ \A t \in Tenants \ {ret'.tenant_id} :
          /\ OnlyTenant(transactions', t) = OnlyTenant(transactions, t)
          /\ OnlyTenant(metrics_daily', t) = OnlyTenant(metrics_daily, t)
          /\ OnlyTenantSeq(forecasts', t) = OnlyTenantSeq(forecasts, t)]_vars

\* tenant T2 has written transactions, metrics and a forecast next to
\* those of tenant T1
C3_Witness ==
  /\ ret.tenant_id = "T2"
  /\ ret.op = "get_forecast"
  /\ OnlyTenantSeq(forecasts, "T2") # <<>>
  /\ OnlyTenant(metrics_daily, "T2") # {}
  /\ OnlyTenant(transactions, "T2") # {}
  /\ OnlyTenant(transactions, "T1") # {}
  /\ OnlyTenant(metrics_daily, "T1") # {}

\* the horizons and the min_data_points arguments generate_forecast is
\* asked for: None (the configured minimum), or a number
ForecastHorizons == {1, 2, MinHorizon}

MinPointsArgs == {<<FALSE, 0>>, <<TRUE, 1>>, <<TRUE, 2>>, <<TRUE, 3>>}

\* the forecast covers horizon_days consecutive days after the last date of
\* the history df, and so do its confidence intervals
CoversHorizon(f, df, horizon_days) ==
  LET last == df[Len(df)].ds
      days == {strftime(last + i) : i \in 1..horizon_days}
  IN  /\ ~IsError(f)
      /\ DOMAIN f.series = days
      /\ Cardinality(DOMAIN f.series) = horizon_days
      /\ DOMAIN f.confidence_intervals = days
      /\ \A k \in days : DOMAIN f.confidence_intervals[k] = {"lower", "upper"}

\* C10 as stated: for a history of at least min_data_points points and
\* horizon_days >= 1, generate_forecast returns a series of exactly
\* horizon_days entries, one per consecutive day after the last historical
\* date, and confidence_intervals has the same keys, each with a lower and
\* an upper bound.
C10_Original ==
  \A t \in Tenants : \A m \in StoredMetrics :
     LET df == get_metric_history(metrics_daily, t, m, NoDate, NoDate)
     IN  \A h \in ForecastHorizons : \A a \in MinPointsArgs :
            LET min_data_points == IF a[1] THEN a[2] ELSE forecast_min_data_points
            IN  (Len(df) >= 1 /\ Len(df) >= min_data_points) =>
                   CoversHorizon(generate_forecast(metrics_daily, t, m, h, a[1], a[2]),
                                 df, h)

\* C10: for a history of at least min_data_points points and at least 2
\* points (Prophet fits no fewer), and horizon_days >= 1, generate_forecast
\* returns a series of exactly horizon_days entries, one per consecutive day
\* after the last historical date, and confidence_intervals has the same
\* keys, each with a lower and an upper bound.
C10_ForecastHorizon ==
  \A t \in Tenants : \A m \in StoredMetrics :
     LET df == get_metric_history(metrics_daily, t, m, NoDate, NoDate)
     IN  \A h \in ForecastHorizons : \A a \in MinPointsArgs :
            LET min_data_points == IF a[1] THEN a[2] ELSE forecast_min_data_points
            IN  (Len(df) >= 2 /\ Len(df) >= min_data_points) =>
                   CoversHorizon(generate_forecast(metrics_daily, t, m, h, a[1], a[2]),
                                 df, h)

\* a forecast was generated from a history of the configured minimum length
\* and stored
C10_Witness ==
  /\ ret.op = "get_forecast"
  /\ ret.status = 200
  /\ forecasts # <<>>
  /\ Len(get_metric_history(metrics_daily, ret.tenant_id, "revenue", NoDate, NoDate))
       >= forecast_min_data_points
  /\ Cardinality(DOMAIN forecasts[Len(forecasts)].series)
       = forecasts[Len(forecasts)].horizon_days

\* the stored forecasts of a tenant and a metric, and the newest of them
StoredForecasts(t, m) ==
  {i \in 1..Len(forecasts) : forecasts[i].tenant_id = t /\ forecasts[i].metric = m}

Newest(stored) ==
  {i \in stored : \A j \in stored : forecasts[j].created_at <= forecasts[i].created_at}

\* C15: get_forecast generates or retrieves: for a valid metric it returns
\* the most recently created stored Forecast of (tenant, metric) when one
\* exists and creates no new row; only when none exists does it generate a
\* forecast, persist exactly one Forecast row and return it (or answer 400
\* when the history is too short to generate from); for a metric outside
\* {revenue, expenses, net_cash} it returns 400 and changes nothing.
C15_GenerateOrRetrieve ==
  [][ret'.op = "get_forecast" =>
       IF ret'.metric \notin ValidMetrics
         THEN ret'.status = 400 /\ forecasts' = forecasts
       ELSE IF StoredForecasts(ret'.tenant_id, ret'.metric) # {}
         THEN /\ forecasts' = forecasts
              /\ ret'.status = 200
              /\ \E i \in Newest(StoredForecasts(ret'.tenant_id, ret'.metric)) :
                    /\ ret'.body.metric = forecasts[i].metric
                    /\ ret'.body.horizon_days = forecasts[i].horizon_days
                    /\ ret'.body.series = forecasts[i].series
                    /\ ret'.body.confidence_intervals = forecasts[i].confidence_intervals
       ELSE \/ ret'.status = 400 /\ forecasts' = forecasts
            \/ /\ ret'.status = 200
               /\ Len(forecasts') = Len(forecasts) + 1
               /\ SubSeq(forecasts', 1, Len(forecasts)) = forecasts
               /\ forecasts'[Len(forecasts')].tenant_id = ret'.tenant_id
               /\ forecasts'[Len(forecasts')].metric = ret'.metric
               /\ forecasts'[Len(forecasts')].series = ret'.body.series]_vars

\* C24: the forecast returned by GET /analytics/forecast/{metric} matches
\* the request: for every request with horizon_days = h (7 <= h <= 365),
\* after any sequence of earlier forecast requests of the tenant, a response
\* other than the 400 of an unknown metric or of a history too short is a
\* forecast with horizon_days = h and a series of exactly h entries.
C24_MatchesRequest ==
  [][(ret'.op = "get_forecast" /\ ret'.status # 400) =>
       /\ ret'.status = 200
       /\ ret'.body.horizon_days = ret'.horizon_days
       /\ Cardinality(DOMAIN ret'.body.series) = ret'.horizon_days]_vars

----------------------------------------------------------------------------
(* Properties of forecast_all_metrics (SpecForecast)                       *)

\* the rows a step adds to the Forecast table
NewForecasts == {forecasts'[i] : i \in (Len(forecasts) + 1)..Len(forecasts')}

\* a call of forecast_all_metrics: generate_forecast gives the error value
\* for every metric with fewer stored points than min_data_points asks for;
\* the call returns, with an error recorded and no row saved for a metric
\* of too short a history, and the forecast recorded and one row saved for
\* each other metric
ErrorNotForecast ==
  LET t == ret'.tenant_id
      h == ret'.horizon_days
  IN  /\ ret'.status = "None"
      /\ DOMAIN ret'.forecasts = StoredMetrics
      /\ \A m \in StoredMetrics :
            LET df == get_metric_history(metrics_daily, t, m, NoDate, NoDate)
            IN  /\ \A a \in MinPointsArgs :
                      Len(df) < (IF a[1] THEN a[2] ELSE forecast_min_data_points)
                         => generate_forecast(metrics_daily, t, m, h, a[1], a[2])
                              = ValueError
                /\ IF Len(df) < forecast_min_data_points
                      THEN /\ IsError(ret'.forecasts[m])
                           /\ \A f \in NewForecasts : f.metric # m
                    ELSE /\ ret'.forecasts[m]
                              = generate_forecast(metrics_daily, t, m, h, FALSE, 0)
                         /\ Cardinality({f \in NewForecasts :
                                           /\ f.metric = m
                                           /\ f.tenant_id = t
                                           /\ f.series = ret'.forecasts[m].series}) = 1

\* C14 as stated, for every horizon_days
C14_Original ==
  [][ret'.op = "forecast_all_metrics" => ErrorNotForecast]_vars

\* C14: for horizon_days >= 1, generate_forecast raises ValueError whenever
\* the metric has fewer than min_data_points stored points and persists
\* nothing; forecast_all_metrics records an error for that metric, saves no
\* Forecast row for it, and still processes and saves the remaining metrics
\* of revenue, expenses, net_cash.
C14_ErrorNotForecast ==
  [][(ret'.op = "forecast_all_metrics" /\ ret'.horizon_days >= 1)
        => ErrorNotForecast]_vars

\* a call recorded an error for expenses and saved the forecasts of revenue
\* and net_cash
C14_Witness ==
  /\ ret.op = "forecast_all_metrics"
  /\ ret.horizon_days >= 1
  /\ IsError(ret.forecasts["expenses"])
  /\ ~IsError(ret.forecasts["revenue"])
  /\ ~IsError(ret.forecasts["net_cash"])
  /\ Len(forecasts) = 2

----------------------------------------------------------------------------
(* Properties of the derived metrics on booked refunds and credits         *)
(* (SpecKpi)                                                               *)

\* the period lengths compute_growth_rate is asked for
GrowthPeriods == {1, DefaultPeriodDays, 42}

\* the tenant's transactions of category Revenue dated from lo to hi
RevenueRows(t, lo, hi) ==
  {x \in transactions : /\ x.tenant_id = t
                        /\ x.date >= lo
                        /\ x.date <= hi
                        /\ x.category = Revenue}

\* a / b truncated toward zero
TruncDiv(a, b) ==
  IF (a < 0) = (b < 0) THEN Abs(a) \div Abs(b) ELSE -(Abs(a) \div Abs(b))

\* what compute_growth_rate returned for a window whose revenue rows are
\* rows, split at mid
GrowthOf(g, rows, mid) ==
  /\ g.previous_period = SumAmounts({x \in rows : x.date <= mid})
  /\ g.current_period = SumAmounts({x \in rows : x.date > mid})
  /\ g.current_period + g.previous_period = SumAmounts(rows)
  /\ IF g.previous_period = 0 THEN g.growth_rate = Decimal(0)
     ELSE /\ g.growth_rate
               = scaleb(decimal_truediv(Decimal(g.current_period - g.previous_period),
                                        Decimal(g.previous_period)), 2)
          /\ int(g.growth_rate)
               = TruncDiv((g.current_period - g.previous_period) * 100,
                          g.previous_period)

\* C21: compute_growth_rate splits the revenue of the window
\* [today - 2*period_days, today] at mid = today - period_days into
\* previous_period (dates <= mid) and current_period (dates > mid), so that
\* current_period + previous_period equals the total revenue of the window,
\* and returns growth_rate = (current_period - previous_period) /
\* previous_period * 100, or 0 when previous_period is 0 or there is no
\* revenue.
C21_GrowthRate ==
  \A t \in Tenants : \A p \in GrowthPeriods :
     GrowthOf(compute_growth_rate(transactions, t, today, p),
              RevenueRows(t, today - 2 * p, today), today - p)

\* a KPI request has returned a growth rate that is not 0, for a tenant with
\* revenue in both periods
C21_Witness ==
  /\ ret.op = "get_kpis"
  /\ ret.status = 200
  /\ ~is_zero(ret.kpis.growth_rate_pct)
  /\ \E x \in RevenueRows(ret.tenant_id, today - 2 * DefaultPeriodDays, today) :
        x.date <= today - DefaultPeriodDays
  /\ \E x \in RevenueRows(ret.tenant_id, today - 2 * DefaultPeriodDays, today) :
        x.date > today - DefaultPeriodDays

\* transaction x of the table contributes to a daily series: without it,
\* the series is another
InRevenue(x, t, lo, hi) ==
  compute_revenue(transactions \ {x}, t, lo, hi) # compute_revenue(transactions, t, lo, hi)

InExpenses(x, t, lo, hi) ==
  compute_expenses(transactions \ {x}, t, lo, hi)
    # compute_expenses(transactions, t, lo, hi)

\* C22: no transaction is counted twice in the daily series: every
\* transaction in the date range contributes to at most one of
\* compute_revenue and compute_expenses (in particular a transaction of
\* category 'Revenue' with a negative amount is not counted in both), and
\* every daily expense value is >= 0.
C22_CountedOnce ==
  \A t \in Tenants : \A r \in KpiRanges(today) :
     /\ \A x \in transactions :
           ~(InRevenue(x, t, r[1], r[2]) /\ InExpenses(x, t, r[1], r[2]))
     /\ \A d \in DOMAIN compute_expenses(transactions, t, r[1], r[2]) :
           compute_expenses(transactions, t, r[1], r[2])[d] >= 0

\* the cash balances compute_runway is given
SuppliedCash == {-5, 0, 40}

\* the sum of the amounts of the tenant's transactions up to today
CashOf(t) ==
  SumAmounts({x \in transactions : x.tenant_id = t /\ x.date <= today})

\* C23: compute_runway returns 0 whenever the current cash balance
\* (supplied, or summed from the tenant's transactions) is <= 0, whatever
\* the burn rate is, including a burn rate of 0.
C23_NoCashNoRunway ==
  \A t \in Tenants :
     /\ CashOf(t) <= 0 => compute_runway(transactions, t, today, FALSE, 0) = 0
     /\ \A cash \in SuppliedCash :
           cash <= 0 => compute_runway(transactions, t, today, TRUE, cash) = 0

----------------------------------------------------------------------------
(* Properties of the loop over the fetched transactions (SpecIngest)       *)

\* the transactions a run fetches for the datasource of its result
FetchedBy(r) == extract_transactions(DsSpreadsheet(r.datasource_id), sheet)

\* C18: per-transaction fault isolation in ingest_datasource: a fetched
\* transaction that fails validate_transaction (of what a fetched
\* transaction can fail on: its date is in the future) is not stored, the
\* other transactions of the batch, those after it included, are processed
\* and stored (each distinct key once), and the run ends with status
\* 'success'.  A run is a step that writes the row of its datasource.
C18_FaultIsolation ==
  [][(ret'.op = "ingest_datasource" /\ datasources' # datasources) =>
       /\ ret'.status = "success"
       /\ \A i \in 1..Len(FetchedBy(ret')) :
             IF FetchedBy(ret')[i].date <= today
               THEN \E j \in 1..i :
                      /\ DupKey(FetchedBy(ret')[j]) = DupKey(FetchedBy(ret')[i])
                      /\ \E x \in transactions' :
                            /\ x.tenant_id = ret'.tenant_id
                            /\ x.external_id = FetchedBy(ret')[j].external_id
             ELSE \A x \in transactions' :
                    x.tenant_id = ret'.tenant_id
                       => x.external_id # FetchedBy(ret')[i].external_id]_vars

\* a run has skipped the first transaction of its batch, dated tomorrow,
\* and stored the second
C18_Witness ==
  /\ ret.op = "ingest_datasource"
  /\ ret.status = "success"
  /\ Len(FetchedBy(ret)) = 2
  /\ FetchedBy(ret)[1].date > today
  /\ ret.transactions_saved = 1
  /\ \E x \in transactions : x.external_id = FetchedBy(ret)[2].external_id

----------------------------------------------------------------------------
(* Properties of the ingestion tasks (SpecSync)                            *)

\* a run of ingest_datasource ended in success: the status says so and
\* sync_count went up by one
SyncSucceeded(ds) ==
  /\ ret'.status = "success"
  /\ datasources'[ds].last_sync_status = "success"
  /\ datasources'[ds].sync_count = datasources[ds].sync_count + 1

\* a run of ingest_datasource ended in failure: the error is recorded,
\* sync_count is as it was and the exception is raised again
SyncFailed(ds) ==
  /\ ret'.status = "raised"
  /\ datasources'[ds].last_sync_status = "error"
  /\ datasources'[ds].last_sync_error = ret'.error
  /\ datasources'[ds].sync_count = datasources[ds].sync_count

ActiveOf(t) ==
  {ds \in DataSourceIds : DsTenant(ds) = t /\ datasources[ds].status = "active"}

\* C19: ingest_all_tenant_sources ingests every datasource of the tenant
\* whose status is 'active' exactly once and no other datasource; a failure
\* of one datasource is recorded as {"status": "error"} under its id and
\* does not stop the ingestion of the others; datasources_processed equals
\* the number of active datasources of the tenant.
C19_AllActiveSources ==
  [][ret'.op = "ingest_all_tenant_sources" =>
       /\ ret'.status = "returned"
       /\ Len(ret'.called) = Cardinality(ActiveOf(ret'.tenant_id))
       /\ {ret'.called[i] : i \in 1..Len(ret'.called)} = ActiveOf(ret'.tenant_id)
       /\ DOMAIN ret'.results = ActiveOf(ret'.tenant_id)
       /\ ret'.datasources_processed = Cardinality(ActiveOf(ret'.tenant_id))
       /\ \A ds \in ActiveOf(ret'.tenant_id) :
             \/ /\ ret'.results[ds].status = "success"
                /\ datasources'[ds].sync_count = datasources[ds].sync_count + 1
             \/ /\ ret'.results[ds].status = "error"
                /\ datasources'[ds].sync_count = datasources[ds].sync_count
       /\ \A ds \in DataSourceIds \ ActiveOf(ret'.tenant_id) :
             datasources'[ds] = datasources[ds]]_vars

\* the first datasource of a run failed and the second was ingested
C19_Witness ==
  /\ ret.op = "ingest_all_tenant_sources"
  /\ ret.status = "returned"
  /\ Len(ret.called) = 2
  /\ ret.results[ret.called[1]].status = "error"
  /\ ret.results[ret.called[2]].status = "success"
  /\ datasources[ret.called[2]].sync_count >= 1

----------------------------------------------------------------------------
(* Properties of detect_duplicates (SpecDedup)                             *)

\* the places of s where a key occurs for the first time
FirstOccurrences(s) ==
  {i \in 1..Len(s) : \A j \in 1..(i - 1) : DupKey(s[j]) # DupKey(s[i])}

\* s restricted to the places in keep, in the order of s
RECURSIVE Restrict(_, _, _)
Restrict(s, keep, i) ==
  IF i > Len(s) THEN <<>>
  ELSE IF i \in keep THEN <<s[i]>> \o Restrict(s, keep, i + 1)
  ELSE Restrict(s, keep, i + 1)

\* C20: detect_duplicates returns the subsequence of its input made of the
\* first occurrence of each distinct key tuple (date, amount, description),
\* in input order: no two returned transactions share a key, every input
\* key appears in the output, and applying detect_duplicates to its own
\* output returns it unchanged.
C20_FirstOccurrences ==
  (call.op = "detect_duplicates" /\ call.done) =>
     /\ call.result
          = Restrict(call.transactions, FirstOccurrences(call.transactions), 1)
     /\ \A i, j \in 1..Len(call.result) :
           i # j => DupKey(call.result[i]) # DupKey(call.result[j])
     /\ \A i \in 1..Len(call.transactions) :
           \E j \in 1..Len(call.result) :
              DupKey(call.result[j]) = DupKey(call.transactions[i])
     /\ detect_duplicates(call.result) = call.result

\* of three transactions, the second repeated the key of the first and was
\* dropped
C20_Witness ==
  /\ call.op = "detect_duplicates"
  /\ call.done
  /\ Len(call.transactions) = 3
  /\ DupKey(call.transactions[1]) = DupKey(call.transactions[2])
  /\ call.transactions[1] # call.transactions[2]
  /\ call.result = <<call.transactions[1], call.transactions[3]>>

----------------------------------------------------------------------------
(* Properties of the access gate (SpecAuth)                                *)

\* the token verifies, its sub claim matches a stored user, and that user
\* is active
ActiveUserOf(token, users) ==
  /\ ~IsError(verify_supabase_jwt(token))
  /\ "sub" \in DOMAIN verify_supabase_jwt(token)
  /\ \E u \in users : /\ u.auth_provider_id = verify_supabase_jwt(token).sub
                       /\ u.is_active

\* what get_current_tenant does with the tenant of a yielded user, and what
\* that means for the handler
TenantGate ==
  /\ (call.current_user # NoUser /\ call.pc \in {"handler", "done"}) =>
        /\ call.tenant = NoTenant => call.status = 404
        /\ (call.tenant # NoTenant /\ call.tenant.status # "active") =>
              call.status = 403
  /\ call.handled =>
        /\ call.current_user # NoUser
        /\ call.current_user.is_active
        /\ call.tenant # NoTenant
        /\ call.tenant.status = "active"

\* C16 as stated: get_current_user yields a user only when the Authorization
\* header has the form 'Bearer <token>', the token verifies, its sub claim
\* matches a stored user and that user is active, and yields 401 in every
\* other case; get_current_tenant yields 404 when that user's tenant does
\* not exist and 403 when its status is not 'active', so no analytics
\* handler runs for an inactive user or a non-active tenant.
C16_Original ==
  (call.op = "request" /\ call.pc # "user") =>
     /\ call.current_user # NoUser =>
           /\ call.has_header
           /\ Len(call.authorization) = 2
           /\ call.authorization[1] = "Bearer"
           /\ ActiveUserOf(call.authorization[2], call.users)
     /\ call.current_user = NoUser => call.status = 401
     /\ TenantGate

\* C16: get_current_user yields a user only when the Authorization header
\* starts with 'Bearer ', the text between its first space and its second
\* (or its end) is a token that verifies, the token's sub claim matches a
\* stored user and that user is active, and yields 401 in every other case
\* of a request that has an Authorization header (one without the header is
\* answered 422 and get_current_user does not run); get_current_tenant
\* yields 404 when that user's tenant does not exist and 403 when its status
\* is not 'active', so no analytics handler runs for an inactive user or a
\* non-active tenant.
C16_AccessGate ==
  (call.op = "request" /\ call.pc # "user") =>
     /\ call.current_user # NoUser =>
           /\ call.has_header
           /\ Len(call.authorization) >= 2
           /\ call.authorization[1] = "Bearer"
           /\ ActiveUserOf(call.authorization[2], call.users)
     /\ call.current_user = NoUser =>
           call.status = IF call.has_header THEN 401 ELSE 422
     /\ TenantGate

\* a request whose header goes on after the token was let through to the
\* handler
C16_Witness ==
  /\ call.op = "request"
  /\ call.pc = "done"
  /\ call.handled
  /\ Len(call.authorization) = 3

----------------------------------------------------------------------------
(* Properties of call_gpt (SpecGpt)                                        *)

\* the answers that are a rate-limit error or a timeout
Retryable == {"openai.RateLimitError", "openai.APITimeoutError"}

\* C11: when the API answers with a rate-limit error or a timeout, call_gpt
\* tries again, up to ai_retry_attempts attempts in total; it raises
\* RateLimitError only after all attempts have failed; a success on any
\* attempt returns that attempt's content.
C11_Retry ==
  call.done =>
     /\ \A i \in 1..(ai_retry_attempts - 1) :
           (\A j \in 1..i : call.answers[j] \in Retryable)
              => call.result.attempts > i
     /\ call.result.outcome = "RateLimitError"
           => /\ call.result.attempts = ai_retry_attempts
              /\ \A j \in 1..ai_retry_attempts : call.answers[j] # "content"
     /\ \A i \in 1..ai_retry_attempts :
           (/\ call.answers[i] = "content"
            /\ \A j \in 1..(i - 1) : call.answers[j] \in Retryable)
              => /\ call.result.outcome = "return"
                 /\ call.result.content = i

----------------------------------------------------------------------------
(* Properties of the AI endpoints (SpecAI)                                 *)

\* C12: a request to an AI endpoint by a tenant whose ai_calls_this_month
\* has reached max_ai_calls_per_month is rejected with 429 before the
\* handler runs: the step writes no KPI or forecast row and leaves
\* ai_calls_this_month as it was, and the handler, where the language
\* model is called, never runs for that request.
C12_QuotaRejection ==
  [][\A r \in Requests :
       /\ (/\ requests[r].pc = "idle"
           /\ requests'[r].pc # "idle"
           /\ tenants[requests'[r].tenant_id].ai_calls_this_month
                >= tenants[requests'[r].tenant_id].max_ai_calls_per_month)
            => /\ requests'[r].pc = "done"
               /\ requests'[r].status = 429
               /\ UNCHANGED <<tenants, metrics_daily, forecasts, transactions>>
       /\ requests[r].status = 429 => requests'[r] = requests[r]]_vars

\* a request was rejected after another request of the tenant used its quota
C12_Witness ==
  \E r \in Requests :
     /\ requests[r].status = 429
     /\ tenants[requests[r].tenant_id].ai_calls_this_month
          = tenants[requests[r].tenant_id].max_ai_calls_per_month

\* C13: a request to an AI endpoint that returns a result increases the
\* tenant's ai_calls_this_month by exactly 1, and a request that ends in an
\* error (400 or 500) leaves it unchanged.
C13_QuotaOnSuccess ==
  [][\A r \in Requests :
       (requests[r].pc = "handler" /\ requests'[r].pc = "done")
          => LET t == requests[r].tenant_id
             IN  /\ requests'[r].status = 200
                      => tenants'[t].ai_calls_this_month
                           = tenants[t].ai_calls_this_month + 1
                 /\ requests'[r].status \in {400, 500}
                      => tenants'[t].ai_calls_this_month
                           = tenants[t].ai_calls_this_month]_vars

\* C5: for every interleaving of two concurrent requests to the AI endpoints
\* of the same tenant that both succeed, the final ai_calls_this_month is
\* its initial value, 0, plus 2 (for a tenant whose quota allows two calls).
C5_SerialCount ==
  \A t \in Tenants :
     (/\ tenants[t].max_ai_calls_per_month >= 2
      /\ \A r \in Requests : /\ requests[r].pc = "done"
                             /\ requests[r].status = 200
                             /\ requests[r].tenant_id = t)
       => tenants[t].ai_calls_this_month = 2

----------------------------------------------------------------------------
(* Properties of categorization (SpecCat)                                  *)

\* the values of CATEGORY_MAPPING, and 'Uncategorized'
Taxonomy ==
  {CATEGORY_MAPPING[i][2] : i \in 1..Len(CATEGORY_MAPPING)} \cup {Uncategorized}

\* C6: for every description, amount and existing_category,
\* categorize_transaction returns a value of CATEGORY_MAPPING or
\* 'Uncategorized'.
C6_FixedTaxonomy == cat.done => cat.category \in Taxonomy

====
